---- MODULE Spec2Model ----
(***************************************************************************)
(* A model of surfacerecon's offline pipeline.                             *)
(*                                                                         *)
(*   Spec       the replay engine     (runner/test_runner.py)              *)
(*   SpecFair   the replay engine under fair scheduling                    *)
(*   SpecGen    the test generator    (generator/test_generator.py)        *)
(*   SpecParse  the endpoint modeler  (parser/har_parser.py)               *)
(*   SpecSev    the severity decision (analyzer/diff_analyzer.py)          *)
(*   SpecGenTwice  the generator run twice on one input                    *)
(*   SpecAnalyze   the findings loop  (analyzer/diff_analyzer.py)          *)
(*   SpecRequest   request preparation (runner/test_runner.py)             *)
(*   SpecPool      the id pool        (parser/id_inference.py)             *)
(*   SpecMass      generate_mass_assignment_tests with any count           *)
(*                                                                         *)
(* Each specification drives one stage; the variables of the other stages  *)
(* stay at their idle values (the *Idle predicates).                       *)
(***************************************************************************)
EXTENDS Integers, Sequences, FiniteSets, TLC

VARIABLES
    \* ---- replay engine (runner/test_runner.py) ----
    tests,              \* the list json.load(tests_file) returned
    concurrency,        \* run_tests' parameter C
    now,                \* asyncio.get_event_loop().time(), in ticks
    last_request_time,  \* RateLimiter.last_request_time
    permits,            \* the value of asyncio.Semaphore(concurrency)
    pc,                 \* where each run_with_semaphore task stands
    wake,               \* the deadline of each task's asyncio.sleep (0: not asleep)
    tokens,             \* the times at which RateLimiter.acquire returned, in order
    outcome,            \* each task's slot in asyncio.gather's result list
    runner,             \* where run_tests stands
    processed_results,  \* run_tests' processed_results
    output_file,        \* the results file: Unwritten, or the list dumped to it
    \* ---- test generator (generator/test_generator.py) ----
    endpoints,          \* the list json.load(endpoints_file) returned
    max_tests,          \* generate_tests' parameter max_tests
    allow_destructive,  \* generate_tests' parameter allow_destructive
    gen_idx,            \* the place in `for endpoint in endpoints` (from 1)
    idor_i,             \* generate_idor_tests' loop variable i
    idor_tests,         \* generate_idor_tests' list tests
    endpoint_tests,     \* generate_tests' endpoint_tests, of each endpoint done
    all_tests,          \* generate_tests' all_tests
    tests_file,         \* the tests file: Unwritten, or the list dumped to it
    first_run,          \* the tests file an earlier run on the same input left
    \* ---- endpoint modeler (parser/har_parser.py) ----
    requests_data,      \* the list json.load(requests_file) returned
    parse_phase,        \* where parse_requests stands ("raised": it raised)
    parse_i,            \* the place in the loop in turn (from 1)
    endpoint_groups,    \* parse_requests' endpoint_groups, in insertion order
    parsed_endpoints,   \* parse_requests' endpoints
    \* ---- severity (analyzer/diff_analyzer.py) ----
    sev_args,           \* calculate_severity's arguments
    sev_phase,          \* "idle", "called" or "returned"
    sensitive_changes,  \* what detect_sensitive_field_changes returned, if called
    severity,           \* what calculate_severity returned
    \* ---- analyzer (analyzer/diff_analyzer.py) ----
    baseline_requests,  \* the list json.load(requests_file) returned
    test_results,       \* the list json.load(test_results_file) returned
    an_tests,           \* the list json.load(tests_file) returned
    an_phase,           \* where analyze_results stands
    an_i,               \* the place in `for test_result in test_results` (from 1)
    an_last,            \* what the last turn of that loop worked on and decided
    findings,           \* analyze_results' findings
    findings_file,      \* the findings file: Unwritten, or the list dumped to it
    \* ---- request preparation (runner/test_runner.py, run_single_test) ----
    rq_test,            \* run_single_test's test
    rq_cookies,         \* run_single_test's cookies
    rq_headers,         \* run_single_test's headers
    rq_phase,           \* "idle", "called" or "sent"
    request_kwargs,     \* what client.request was called with
    \* ---- ID inference (parser/id_inference.py, IDPool) ----
    pool_values,        \* the values IDPool.add is called with, in order
    pool_i,             \* the place of the value in turn (from 1)
    pool_phase,         \* "idle", "adding", "raised" (add raised) or "done"
    id_pool,            \* the IDPool: its three sets and inferred_type
    \* ---- generate_mass_assignment_tests called on its own ----
    ma_endpoint,        \* generate_mass_assignment_tests' endpoint
    ma_count,           \* generate_mass_assignment_tests' count
    ma_phase,           \* "idle", "called" or "returned"
    ma_tests            \* the list it returned

replayVars == << tests, concurrency, now, last_request_time, permits, pc, wake,
                 tokens, outcome, runner, processed_results, output_file >>

genVars == << endpoints, max_tests, allow_destructive, gen_idx, idor_i, idor_tests,
              endpoint_tests, all_tests, tests_file >>

parseVars == << requests_data, parse_phase, parse_i, endpoint_groups,
                parsed_endpoints >>

sevVars == << sev_args, sev_phase, sensitive_changes, severity >>

anVars == << baseline_requests, test_results, an_tests, an_phase, an_i, an_last,
             findings, findings_file >>

rqVars == << rq_test, rq_cookies, rq_headers, rq_phase, request_kwargs >>

poolVars == << pool_values, pool_i, pool_phase, id_pool >>

maVars == << ma_endpoint, ma_count, ma_phase, ma_tests >>

vars == << replayVars, genVars, first_run, parseVars, sevVars, anVars, rqVars,
          poolVars, maVars >>

\* What a stage leaves alone: the variables of the other stages.
otherThanReplay == << genVars, first_run, parseVars, sevVars, anVars, rqVars,
    poolVars, maVars >>
otherThanGen == << replayVars, parseVars, sevVars, anVars, first_run, rqVars,
    poolVars, maVars >>
otherThanParse == << replayVars, genVars, first_run, sevVars, anVars, rqVars,
    poolVars, maVars >>
otherThanSev == << replayVars, genVars, first_run, parseVars, anVars, rqVars,
    poolVars, maVars >>
otherThanRequest == << replayVars, genVars, first_run, parseVars, sevVars, anVars,
    poolVars, maVars >>
otherThanPool == << replayVars, genVars, first_run, parseVars, sevVars, anVars,
    rqVars, maVars >>
otherThanMass == << replayVars, genVars, first_run, parseVars, sevVars, anVars,
    rqVars, poolVars >>
otherThanAnalyze == << replayVars, genVars, first_run, parseVars, sevVars, rqVars,
    poolVars, maVars >>

(***************************************************************************)
(* Bounds of the model.                                                    *)
(***************************************************************************)
NumTests == 3
MaxConcurrency == 2
MaxTime == 4

\* RateLimiter.min_interval = 1.0 / requests_per_second, in ticks of the clock.
MinInterval == 2

Tasks == 1..NumTests

\* A results or tests file: not written yet, or holding the list dumped to it.
Unwritten == [ written |-> FALSE, data |-> << >> ]
Written(data) == [ written |-> TRUE, data |-> data ]

\* The test-case set: one test per task, told apart by its test_id (a string,
\* modelled as the sequence of its pieces).
TestIdOf(i) == << "test", i >>

(***************************************************************************)
(* Strings whose letters matter (lower-casing, substring tests) are        *)
(* sequences of one-character strings.                                     *)
(***************************************************************************)
UpperCase == << "A", "B", "C", "D", "E", "F", "G", "H", "I", "J", "K", "L", "M", "N", "O", "P", "Q", "R", "S", "T", "U", "V", "W", "X", "Y", "Z" >>
LowerCase == << "a", "b", "c", "d", "e", "f", "g", "h", "i", "j", "k", "l", "m", "n", "o", "p", "q", "r", "s", "t", "u", "v", "w", "x", "y", "z" >>

\* One character of str.lower().
LowerChar(c) ==
    IF \E k \in 1..Len(UpperCase) : UpperCase[k] = c
    THEN LowerCase[CHOOSE k \in 1..Len(UpperCase) : UpperCase[k] = c]
    ELSE c

\* str.lower()
Lower(s) == [ k \in 1..Len(s) |-> LowerChar(s[k]) ]

\* Python's `t in s` for strings.
Contains(s, t) ==
    \E k \in 0..(Len(s) - Len(t)) : SubSeq(s, k + 1, k + Len(t)) = t

RECURSIVE Flatten(_)
\* The concatenation of a sequence of sequences (list.extend in a loop).
Flatten(ss) == IF ss = << >> THEN << >> ELSE Head(ss) \o Flatten(Tail(ss))

\* Python's s[:n].
PyPrefix(s, n) ==
    IF n >= 0
    THEN SubSeq(s, 1, IF n < Len(s) THEN n ELSE Len(s))
    ELSE SubSeq(s, 1, IF Len(s) + n > 0 THEN Len(s) + n ELSE 0)

Min(a, b) == IF a < b THEN a ELSE b

(***************************************************************************)
(* settings.py                                                             *)
(***************************************************************************)
DEFAULT_MAX_TESTS_PER_ENDPOINT == 30
IDOR_TEST_COUNT == 10
AUTH_BYPASS_TEST_COUNT == 5
METHOD_CONFUSION_TEST_COUNT == 10
MASS_ASSIGNMENT_TEST_COUNT == 5

HTTP_METHODS == << "GET", "POST", "PUT", "DELETE", "OPTIONS", "HEAD", "PATCH" >>
DESTRUCTIVE_METHODS == << "DELETE" >>

SUSPICIOUS_FIELDS == <<
    << "i", "s", "A", "d", "m", "i", "n" >>,
    << "i", "s", "_", "a", "d", "m", "i", "n" >>,
    << "a", "d", "m", "i", "n" >>,
    << "r", "o", "l", "e" >>,
    << "r", "o", "l", "e", "s" >>,
    << "i", "s", "O", "w", "n", "e", "r" >>,
    << "i", "s", "_", "o", "w", "n", "e", "r" >>,
    << "o", "w", "n", "e", "r" >>,
    << "p", "e", "r", "m", "i", "s", "s", "i", "o", "n", "s" >>,
    << "p", "e", "r", "m", "i", "s", "s", "i", "o", "n" >>,
    << "a", "c", "c", "e", "s", "s", "L", "e", "v", "e", "l" >>,
    << "a", "c", "c", "e", "s", "s", "_", "l", "e", "v", "e", "l" >>,
    << "p", "r", "i", "v", "i", "l", "e", "g", "e", "s" >>,
    << "p", "r", "i", "v", "i", "l", "e", "g", "e" >>,
    << "s", "u", "p", "e", "r", "u", "s", "e", "r" >>,
    << "s", "u", "p", "e", "r", "_", "u", "s", "e", "r" >>,
    << "i", "s", "S", "u", "p", "e", "r", "u", "s", "e", "r" >>,
    << "i", "s", "_", "s", "u", "p", "e", "r", "u", "s", "e", "r" >> >>

\* Python's `x in xs` for a list.
InList(x, xs) == \E k \in 1..Len(xs) : xs[k] = x

\* A list comprehension with a condition: the elements of xs that are in keep.
RECURSIVE Filter(_, _)
Filter(xs, keep) ==
    IF xs = << >> THEN << >>
    ELSE (IF Head(xs) \in keep THEN << Head(xs) >> ELSE << >>) \o Filter(Tail(xs), keep)

(***************************************************************************)
(* Endpoint modeler: parser/har_parser.py                                  *)
(*                                                                         *)
(* A URL is the pair urlparse makes of it, [path, query]; a path is the    *)
(* string of its characters.                                               *)
(***************************************************************************)

\* normalize_url
NormalizeUrl(url) == << url.path, url.query >>

RECURSIVE Split(_, _)
\* str.split(sep) for a separator of one character.
Split(s, sep) ==
    IF \A k \in 1..Len(s) : s[k] # sep THEN << s >>
    ELSE LET k == CHOOSE j \in 1..Len(s) :
                      s[j] = sep /\ \A h \in 1..(j - 1) : s[h] # sep
         IN  << SubSeq(s, 1, k - 1) >> \o Split(SubSeq(s, k + 1, Len(s)), sep)

RECURSIVE Join(_, _)
\* sep.join(parts)
Join(parts, sep) ==
    IF parts = << >> THEN << >>
    ELSE IF Len(parts) = 1 THEN parts[1]
    ELSE parts[1] \o << sep >> \o Join(Tail(parts), sep)

Digits == { "0", "1", "2", "3", "4", "5", "6", "7", "8", "9" }
HexLetters == { "a", "b", "c", "d", "e", "f" }

\* A character that str.isdigit() accepts and int() does not: a digit that is no
\* decimal (superscript two, U+00B2).
OtherDigits == { "²" }

\* str.isdigit()
IsDigit(seg) ==
    seg # << >> /\ \A k \in 1..Len(seg) : seg[k] \in Digits \cup OtherDigits

\* The strings int() and json.loads read as a number: decimal digits only.
IsDecimal(seg) == seg # << >> /\ \A k \in 1..Len(seg) : seg[k] \in Digits

\* re.match of the 8-4-4-4-12 pattern with re.IGNORECASE
IsUuid(seg) ==
    /\ Len(seg) = 36
    /\ \A k \in 1..36 :
          IF k \in { 9, 14, 19, 24 } THEN seg[k] = "-"
          ELSE seg[k] \in Digits \/ LowerChar(seg[k]) \in HexLetters

\* detect_template_path
DetectTemplatePath(path, seen_paths) ==
    IF seen_paths = << >> THEN path
    ELSE LET segments == Split(path, "/")
             SeenAt(i) == { Split(seen_paths[p], "/")[i] :
                              p \in { p \in 1..Len(seen_paths) :
                                        i <= Len(Split(seen_paths[p], "/")) } }
             Template(i) ==
                 IF \E seg \in SeenAt(i) : IsDigit(seg) THEN << "{", "i", "d", ":", "i", "n", "t", "}" >>
                 ELSE IF \E seg \in SeenAt(i) : IsUuid(seg) THEN << "{", "i", "d", ":", "u", "u", "i", "d", "}" >>
                 ELSE IF segments[i] # segments[1]
                         /\ \E seg \in SeenAt(i) : seg # segments[i]
                 THEN << "{", "p", "a", "r", "a", "m", "}" >>
                 ELSE segments[i]
         IN  Join([ i \in 1..Len(segments) |-> Template(i) ], "/")

\* The place of a key in endpoint_groups, or 0.
GroupOf(groups, key) ==
    IF \E g \in 1..Len(groups) : groups[g].key = key
    THEN CHOOSE g \in 1..Len(groups) : groups[g].key = key
    ELSE 0

\* The key a captured request is grouped under (line 142).
GroupKey(req) == << req.method, NormalizeUrl(req.url)[1] >>

\* endpoint_groups[key].append(req) on the defaultdict.
AddToGroup(groups, key, req) ==
    IF GroupOf(groups, key) = 0
    THEN Append(groups, [ key |-> key, requests |-> << req >> ])
    ELSE [ groups EXCEPT ![GroupOf(groups, key)].requests = Append(@, req) ]

\* path_params of a group (lines 173-185): the segments of each request's path
\* that differ from the group's path, by their place.
PathParams(base_path, requests) ==
    LET base_segments == Split(base_path, "/")
        Differ(i) == { Split(NormalizeUrl(requests[r].url)[1], "/")[i] :
                         r \in { r \in 1..Len(requests) :
                                   /\ i <= Len(Split(NormalizeUrl(requests[r].url)[1], "/"))
                                   /\ Split(NormalizeUrl(requests[r].url)[1], "/")[i]
                                        # base_segments[i] } }
    IN  [ i \in { i \in 1..Len(base_segments) : Differ(i) # { } } |-> Differ(i) ]

\* The EndpointModel parse_requests builds of one group (lines 146-233).
EndpointOf(group) ==
    LET method == group.key[1]
        base_path == group.key[2]
        all_paths == [ r \in 1..Len(group.requests) |->
                         NormalizeUrl(group.requests[r].url)[1] ]
    IN  [ method |-> method,
          templated_path |-> DetectTemplatePath(base_path, all_paths),
          path_params |-> PathParams(base_path, group.requests) ]

(***************************************************************************)
(* Severity: analyzer/diff_analyzer.py and the tables of settings.py       *)
(*                                                                         *)
(* A diff is the DeepDiff report: a function from the report's categories  *)
(* to the paths reported under each, or None.  A path is the string of its *)
(* characters.                                                             *)
(***************************************************************************)

\* settings.LENGTH_DIFF_THRESHOLD (0.30), in hundredths.
LENGTH_DIFF_THRESHOLD == 30

STATUS_CHANGE_HIGH ==
    (403 :> << 200, 201, 204 >>) @@ (401 :> << 200, 201, 204 >>)
        @@ (404 :> << 200, 201, 204 >>)

STATUS_CHANGE_MEDIUM ==
    (404 :> << 200, 201, 204 >>) @@ (400 :> << 200, 201, 204 >>)

SENSITIVE_FIELDS ==
    << << "o", "w", "n", "e", "r", "I", "d" >>,
       << "o", "w", "n", "e", "r", "_", "i", "d" >>,
       << "u", "s", "e", "r", "I", "d" >>,
       << "u", "s", "e", "r", "_", "i", "d" >>,
       << "e", "m", "a", "i", "l" >>,
       << "r", "o", "l", "e" >>,
       << "r", "o", "l", "e", "s" >>,
       << "i", "s", "A", "d", "m", "i", "n" >>,
       << "i", "s", "_", "a", "d", "m", "i", "n" >>,
       << "p", "e", "r", "m", "i", "s", "s", "i", "o", "n", "s" >>,
       << "a", "c", "c", "e", "s", "s", "L", "e", "v", "e", "l" >>,
       << "a", "c", "c", "e", "s", "s", "_", "l", "e", "v", "e", "l" >> >>

\* None, for a diff: the report with no category.
NoDiff == << >>

\* `if diff:` -- None and the empty report are both false.
Truthy(diff) == DOMAIN diff # { }

\* The paths of one category that detect_sensitive_field_changes keeps:
\* `sensitive in field_path.lower()` for some sensitive of SENSITIVE_FIELDS.
SensitiveIn(diff, category) ==
    IF category \in DOMAIN diff
    THEN { field_path \in diff[category] :
             \E k \in 1..Len(SENSITIVE_FIELDS) :
                 Contains(Lower(field_path), SENSITIVE_FIELDS[k]) }
    ELSE { }

\* detect_sensitive_field_changes: the changed_fields, as a set.
DetectSensitiveFieldChanges(diff) ==
    SensitiveIn(diff, "dictionary_item_added")
        \cup SensitiveIn(diff, "dictionary_item_removed")
        \cup SensitiveIn(diff, "values_changed")

Abs(n) == IF n < 0 THEN 0 - n ELSE n

\* len(str(diff.get(key, ""))): the keys of a report are its categories.
ReportLen(diff, key) == IF key \in DOMAIN diff THEN Cardinality(diff[key]) ELSE 0

\* The length rule of calculate_severity (lines 176-182).
LengthDiffers(diff) ==
    LET baseline_body_len == ReportLen(diff, "old_value")
        test_body_len == ReportLen(diff, "new_value")
    IN  /\ baseline_body_len > 0
        /\ 100 * Abs(test_body_len - baseline_body_len)
              > LENGTH_DIFF_THRESHOLD * baseline_body_len

\* Whether calculate_severity gets as far as detect_sensitive_field_changes.
ReachesDetection(baseline_status, test_status, diff) ==
    /\ ~(/\ baseline_status \in DOMAIN STATUS_CHANGE_HIGH
         /\ InList(test_status, STATUS_CHANGE_HIGH[baseline_status]))
    /\ ~(/\ baseline_status \in DOMAIN STATUS_CHANGE_MEDIUM
         /\ InList(test_status, STATUS_CHANGE_MEDIUM[baseline_status]))
    /\ Truthy(diff)

\* calculate_severity without its test for IDOR: a changed body under two 200s
\* is MEDIUM for every test type.
CalculateSeverity_IdorAsOthers(baseline_status, test_status, diff, test_type) ==
    IF /\ baseline_status \in DOMAIN STATUS_CHANGE_HIGH
       /\ InList(test_status, STATUS_CHANGE_HIGH[baseline_status])
    THEN "HIGH"
    ELSE IF /\ baseline_status \in DOMAIN STATUS_CHANGE_MEDIUM
            /\ InList(test_status, STATUS_CHANGE_MEDIUM[baseline_status])
    THEN "MEDIUM"
    ELSE IF Truthy(diff) /\ DetectSensitiveFieldChanges(diff) # { }
    THEN "HIGH"
    ELSE IF baseline_status = 200 /\ test_status = 200 /\ Truthy(diff)
    THEN "MEDIUM"
    ELSE "LOW"

\* calculate_severity with the two status tables consulted in the other order.
CalculateSeverity_MediumTableFirst(baseline_status, test_status, diff, test_type) ==
    IF /\ baseline_status \in DOMAIN STATUS_CHANGE_MEDIUM
       /\ InList(test_status, STATUS_CHANGE_MEDIUM[baseline_status])
    THEN "MEDIUM"
    ELSE IF /\ baseline_status \in DOMAIN STATUS_CHANGE_HIGH
            /\ InList(test_status, STATUS_CHANGE_HIGH[baseline_status])
    THEN "HIGH"
    ELSE "LOW"

\* calculate_severity
CalculateSeverity(baseline_status, test_status, diff, test_type) ==
    IF /\ baseline_status \in DOMAIN STATUS_CHANGE_HIGH
       /\ InList(test_status, STATUS_CHANGE_HIGH[baseline_status])
    THEN "HIGH"
    ELSE IF /\ baseline_status \in DOMAIN STATUS_CHANGE_MEDIUM
            /\ InList(test_status, STATUS_CHANGE_MEDIUM[baseline_status])
    THEN "MEDIUM"
    ELSE IF Truthy(diff) /\ DetectSensitiveFieldChanges(diff) # { }
    THEN "HIGH"
    ELSE IF Truthy(diff) /\ LengthDiffers(diff)
    THEN "MEDIUM"
    ELSE IF baseline_status = 200 /\ test_status = 200 /\ Truthy(diff)
    THEN IF test_type = "IDOR" THEN "HIGH" ELSE "MEDIUM"
    ELSE "LOW"

(***************************************************************************)
(* Response comparison: analyzer/diff_analyzer.py                          *)
(*                                                                         *)
(* A body is the string of its characters.  json.loads is computed for the *)
(* texts that are a flat object of number members, {"k":1,...}; every      *)
(* other text of the model is not JSON.  A parsed object is a function     *)
(* from its keys to the digits of their values.                            *)
(***************************************************************************)

\* None, for json.loads failing or not tried.
NoJson == [ ok |-> FALSE, value |-> << >> ]

\* The members of the text of a flat object, as << key, digits >>, or << >>
\* where the text between the braces is not a list of members.
JsonMembers(inner) ==
    LET parts == Split(inner, ",")
        Pair(k) == Split(parts[k], ":")
        WellFormed(k) ==
            /\ Len(Pair(k)) = 2
            /\ Len(Pair(k)[1]) >= 2
            /\ Pair(k)[1][1] = "\""
            /\ Pair(k)[1][Len(Pair(k)[1])] = "\""
            /\ IsDecimal(Pair(k)[2])
    IN  IF \A k \in 1..Len(parts) : WellFormed(k)
        THEN [ k \in 1..Len(parts) |->
                 << SubSeq(Pair(k)[1], 2, Len(Pair(k)[1]) - 1), Pair(k)[2] >> ]
        ELSE << >>

\* json.loads(body): the parsed object, or NoJson for JSONDecodeError.
JsonLoads(body) ==
    IF Len(body) < 2 \/ body[1] # "{" \/ body[Len(body)] # "}" THEN NoJson
    ELSE LET inner == SubSeq(body, 2, Len(body) - 1)
             members == JsonMembers(inner)
             keys == { members[k][1] : k \in 1..Len(members) }
             Last(key) == CHOOSE k \in 1..Len(members) :
                              /\ members[k][1] = key
                              /\ \A h \in (k + 1)..Len(members) : members[h][1] # key
         IN  IF inner = << >> THEN [ ok |-> TRUE, value |-> << >> ]
             ELSE IF members = << >> THEN NoJson
             ELSE [ ok |-> TRUE,
                    value |-> [ key \in keys |-> members[Last(key)][2] ] ]

UnableToReadBody == << "(", "u", "n", "a", "b", "l", "e", " ", "t", "o", " ", "r", "e", "a", "d", " ", "b", "o", "d", "y", ")" >>

\* The path DeepDiff gives the item of a key of the root object.
RootPath(key) == << "r", "o", "o", "t", "[", "'" >> \o key \o << "'", "]" >>

\* DeepDiff(baseline_json, test_json) of two flat objects: the categories that
\* report something, with the paths under each.
DeepDiffJson(baseline_json, test_json) ==
    LET Paths(category) ==
            IF category = "dictionary_item_added"
            THEN { RootPath(k) : k \in DOMAIN test_json \ DOMAIN baseline_json }
            ELSE IF category = "dictionary_item_removed"
            THEN { RootPath(k) : k \in DOMAIN baseline_json \ DOMAIN test_json }
            ELSE { RootPath(k) : k \in { k \in DOMAIN baseline_json \cap DOMAIN test_json :
                                           baseline_json[k] # test_json[k] } }
        categories == { c \in { "dictionary_item_added", "dictionary_item_removed",
                                "values_changed" } : Paths(c) # { } }
    IN  [ c \in categories |-> Paths(c) ]

\* DeepDiff({"body": baseline_body}, {"body": test_body}) of two different texts.
DeepDiffText == "values_changed" :> { RootPath(<< "b", "o", "d", "y" >>) }

\* The json.loads try of compare_responses (lines 91-101).
TryJson(body) ==
    IF body # << >> /\ body # UnableToReadBody THEN JsonLoads(body) ELSE NoJson

\* compare_responses
CompareResponses(baseline, test_result) ==
    IF ~test_result.success \/ ~test_result.has_response THEN NoDiff
    ELSE LET baseline_body == IF baseline.has_response THEN baseline.response.body
                              ELSE << >>
             test_body == test_result.response.body
             baseline_json == TryJson(baseline_body)
             test_json == TryJson(test_body)
         IN  IF /\ baseline_json.ok
                /\ test_json.ok
                /\ Truthy(DeepDiffJson(baseline_json.value, test_json.value))
             THEN DeepDiffJson(baseline_json.value, test_json.value)
             ELSE IF baseline_body # test_body THEN DeepDiffText
             ELSE NoDiff

(***************************************************************************)
(* Test generator: generator/test_generator.py                             *)
(*                                                                         *)
(* A templated path is the sequence of its segments ("/users/{id:int}" is  *)
(* << "", "users", "{id:int}" >>); a JSON object is a function from its    *)
(* keys; a test_id or description is the sequence of the pieces its        *)
(* f-string joins.                                                         *)
(***************************************************************************)

\* body=None, and a body that is a JSON object.
NoBody == [ present |-> FALSE, fields |-> << >> ]
Body(fields) == [ present |-> TRUE, fields |-> fields ]

\* d[k] = v on a dictionary.
DictSet(d, k, v) == [ x \in (DOMAIN d) \cup { k } |-> IF x = k THEN v ELSE d[x] ]

\* An id as json.load returns it from a pool: a JSON number (a Python int) or a
\* JSON string.  An int and a str are never equal in Python, whatever they hold.
JsonInt(n) == [ kind |-> "int", int |-> n, text |-> "" ]
JsonStr(s) == [ kind |-> "str", int |-> 0, text |-> s ]

\* str(target_id)
Str(v) == IF v.kind = "int" THEN ToString(v.int) ELSE v.text

\* TestCase.__init__ and to_dict
TestCase(test_id, test_type, endpoint, method, url, body, cookies, description) ==
    [ test_id |-> test_id, test_type |-> test_type, endpoint |-> endpoint,
      method |-> method, url |-> url, headers |-> << >>, body |-> body,
      cookies |-> cookies, description |-> description ]

\* The ids of one pool, as generate_idor_tests collects them.
PoolIds(pool) ==
    [ k \in 1..Len(pool.integer_ids) |-> JsonInt(pool.integer_ids[k]) ]
    \o [ k \in 1..Len(pool.uuid_ids) |-> JsonStr(pool.uuid_ids[k]) ]
    \o [ k \in 1..Len(pool.string_ids) |-> JsonStr(pool.string_ids[k]) ]

RECURSIVE Dedup(_)
\* The distinct elements of a list, in the order of their first occurrence (the
\* keys of a dict filled in that order).
Dedup(xs) ==
    IF xs = << >> THEN << >>
    ELSE LET r == Dedup(SubSeq(xs, 1, Len(xs) - 1))
             x == xs[Len(xs)]
         IN  IF InList(x, r) THEN r ELSE Append(r, x)

\* The keys of all_id_pools, in insertion order.
AllPoolNames(all_endpoints) ==
    Dedup(Flatten([ e \in 1..Len(all_endpoints) |->
                      [ k \in 1..Len(all_endpoints[e].id_pools) |->
                          all_endpoints[e].id_pools[k].name ] ]))

\* all_id_pools[name]: the ids of every pool of that name, over all endpoints.
AllPoolIds(all_endpoints, name) ==
    Flatten([ e \in 1..Len(all_endpoints) |->
                Flatten([ k \in 1..Len(all_endpoints[e].id_pools) |->
                            IF all_endpoints[e].id_pools[k].name = name
                            THEN PoolIds(all_endpoints[e].id_pools[k])
                            ELSE << >> ]) ])

\* Mutant of CandidateIds: the original id is not left out.
CandidateIds_KeepsOriginal(pool_ids, original_id) == pool_ids

\* [id_val for id_val in pool_ids if id_val != original_id]
CandidateIds(pool_ids, original_id) ==
    Filter(pool_ids, { pool_ids[k] : k \in 1..Len(pool_ids) } \ { original_id })

\* The first pool of all_id_pools, other than the source pool, that holds an id
\* other than original_id: its place in AllPoolNames, or 0.
TargetPool(all_endpoints, source_pool_name, original_id) ==
    LET names == AllPoolNames(all_endpoints)
        fits == { k \in 1..Len(names) :
                    /\ names[k] # source_pool_name
                    /\ CandidateIds(AllPoolIds(all_endpoints, names[k]),
                                    original_id) # << >> }
    IN  IF fits = { } THEN 0 ELSE CHOOSE k \in fits : \A j \in fits : k <= j

\* Python's `not target_id` for an id that was found.
Falsy(v) == IF v.kind = "int" THEN v.int = 0 ELSE v.text = ""

Placeholders == { "{id:int}", "{id:uuid}", "{param}" }

\* The three str.replace calls on the templated path.
ConcretizeUrl(templated_path, target_id) ==
    [ k \in 1..Len(templated_path) |->
        IF templated_path[k] \in Placeholders THEN Str(target_id)
        ELSE templated_path[k] ]

\* The body of an IDOR test: the first sample body with its id keys replaced.
IdorBody(endpoint, source_pool_name, target_id) ==
    IF endpoint.sample_bodies = << >> THEN NoBody
    ELSE LET b == endpoint.sample_bodies[1] IN
         Body([ key \in DOMAIN b |->
                  IF key = source_pool_name \/ Contains(Lower(key), << "i", "d" >>)
                  THEN target_id ELSE b[key] ])

\* The TestCase of iteration i (from 0) of generate_idor_tests' loop.
IdorTest(endpoint, i, source_pool_name, original_id, target_pool_name, target_id) ==
    TestCase(<< "idor", endpoint.templated_path, i >>, "IDOR",
             endpoint.templated_path, endpoint.method,
             ConcretizeUrl(endpoint.templated_path, target_id),
             IdorBody(endpoint, source_pool_name, target_id), TRUE,
             << "IDOR", source_pool_name, original_id, target_pool_name, target_id >>)

\* range(min(count, len(endpoint_id_pools) * 5))
IdorIterations(endpoint) == Min(IDOR_TEST_COUNT, Len(endpoint.id_pools) * 5)

\* Mutant of AuthBypassTests: the tests are made with TestCase's default
\* cookies=True.
AuthBypassTests_WithSession(endpoint) ==
    [ k \in 1..AUTH_BYPASS_TEST_COUNT |->
        TestCase(<< "auth_bypass", endpoint.templated_path, k - 1 >>, "AUTH_BYPASS",
                 endpoint.templated_path, endpoint.method, endpoint.templated_path,
                 NoBody, TRUE, << "Auth bypass" >>) ]

\* generate_auth_bypass_tests
AuthBypassTests(endpoint) ==
    [ k \in 1..AUTH_BYPASS_TEST_COUNT |->
        TestCase(<< "auth_bypass", endpoint.templated_path, k - 1 >>, "AUTH_BYPASS",
                 endpoint.templated_path, endpoint.method, endpoint.templated_path,
                 NoBody, FALSE, << "Auth bypass" >>) ]

\* alternative_methods of generate_method_confusion_tests
AlternativeMethods(original_method, destructive_allowed) ==
    LET all == { HTTP_METHODS[k] : k \in 1..Len(HTTP_METHODS) }
        other == Filter(HTTP_METHODS, all \ { original_method })
        kept == IF ~destructive_allowed
                THEN Filter(other, all \ { DESTRUCTIVE_METHODS[k] :
                                             k \in 1..Len(DESTRUCTIVE_METHODS) })
                ELSE other
    IN  PyPrefix(kept, METHOD_CONFUSION_TEST_COUNT)

\* generate_method_confusion_tests
MethodConfusionTests(endpoint, destructive_allowed) ==
    LET methods == AlternativeMethods(endpoint.method, destructive_allowed) IN
    [ k \in 1..Len(methods) |->
        TestCase(<< "method_confusion", endpoint.templated_path, methods[k] >>,
                 "METHOD_CONFUSION", endpoint.templated_path, methods[k],
                 endpoint.templated_path,
                 IF endpoint.sample_bodies # << >>
                 THEN Body(endpoint.sample_bodies[1]) ELSE NoBody,
                 TRUE, << "Method confusion", methods[k], endpoint.method >>) ]

\* The value generate_mass_assignment_tests injects for a field.
SuspiciousValue(field) ==
    IF Contains(Lower(field), << "a", "d", "m", "i", "n" >>) \/ Contains(Lower(field), << "i", "s" >>)
    THEN "True"
    ELSE IF Contains(Lower(field), << "r", "o", "l", "e" >>) THEN "admin"
    ELSE IF Contains(Lower(field), << "p", "e", "r", "m", "i", "s", "s", "i", "o", "n" >>)
            \/ Contains(Lower(field), << "a", "c", "c", "e", "s", "s" >>)
    THEN "full"
    ELSE "True"

\* generate_mass_assignment_tests(endpoint, count)
GenerateMassAssignmentTests(endpoint, count) ==
    IF endpoint.method \notin { "POST", "PUT", "PATCH" } THEN << >>
    ELSE LET base_body == IF endpoint.sample_bodies # << >>
                          THEN endpoint.sample_bodies[1] ELSE << >>
             suspicious_fields == PyPrefix(SUSPICIOUS_FIELDS, count)
         IN  [ k \in 1..Len(suspicious_fields) |->
                 TestCase(<< "mass_assignment", endpoint.templated_path, k - 1 >>,
                          "MASS_ASSIGNMENT", endpoint.templated_path, endpoint.method,
                          endpoint.templated_path,
                          Body(DictSet(base_body, suspicious_fields[k],
                                       SuspiciousValue(suspicious_fields[k]))),
                          TRUE,
                          << "Mass assignment", suspicious_fields[k],
                             SuspiciousValue(suspicious_fields[k]) >>) ]

\* generate_mass_assignment_tests as generate_tests calls it: with the default
\* count.
MassAssignmentTests(endpoint) ==
    GenerateMassAssignmentTests(endpoint, MASS_ASSIGNMENT_TEST_COUNT)

\* Mutant of EndpointTests: the AUTH_BYPASS tests are joined before the IDOR
\* tests.
EndpointTests_AuthFirst(endpoint, idor, cap, destructive_allowed) ==
    LET joined ==
            AuthBypassTests(endpoint)
            \o PyPrefix(idor, IDOR_TEST_COUNT)
            \o MethodConfusionTests(endpoint, destructive_allowed)
            \o MassAssignmentTests(endpoint)
    IN  IF Len(joined) > cap THEN PyPrefix(joined, cap) ELSE joined

\* Mutant of EndpointTests: the cut is one test late.
EndpointTests_CutLate(endpoint, idor, cap, destructive_allowed) ==
    LET joined ==
            PyPrefix(idor, IDOR_TEST_COUNT)
            \o AuthBypassTests(endpoint)
            \o MethodConfusionTests(endpoint, destructive_allowed)
            \o MassAssignmentTests(endpoint)
    IN  IF Len(joined) > cap THEN PyPrefix(joined, cap + 1) ELSE joined

\* The body of generate_tests' loop after the IDOR tests: the four lists are
\* joined in order and cut to max_tests.
EndpointTests(endpoint, idor, cap, destructive_allowed) ==
    LET joined ==
            PyPrefix(idor, IDOR_TEST_COUNT)
            \o AuthBypassTests(endpoint)
            \o MethodConfusionTests(endpoint, destructive_allowed)
            \o MassAssignmentTests(endpoint)
    IN  IF Len(joined) > cap THEN PyPrefix(joined, cap) ELSE joined

(***************************************************************************)
(* Replay engine: runner/test_runner.py                                    *)
(***************************************************************************)

\* What str(e) of an exception gives; the text itself is of no interest.
Detail == "detail"

\* result["error"] is modelled as the sequence of the pieces the f-string joins:
\* None is << >>, "Request timeout" is one piece, f"Request error: {str(e)}" two.
NoError == << >>
TimeoutError == << "Request timeout" >>
RequestError(e) == << "Request error: ", e >>
UnexpectedError(e) == << "Unexpected error: ", e >>

\* The result dictionary run_single_test builds before its try block.
NewResult(i) ==
    [ test_id |-> tests[i].test_id, success |-> FALSE, error |-> NoError,
      response |-> "None" ]

\* run_single_test's try block, by what client.request did.
ResultFor(i, how) ==
    CASE how = "response" ->
            [ NewResult(i) EXCEPT !.response = "response", !.success = TRUE ]
      [] how = "timeout" ->
            [ NewResult(i) EXCEPT !.error = TimeoutError ]
      [] how = "request_error" ->
            [ NewResult(i) EXCEPT !.error = RequestError(Detail) ]
      [] OTHER ->
            [ NewResult(i) EXCEPT !.error = UnexpectedError(Detail) ]

Outcomes == { "response", "timeout", "request_error", "other" }

\* Mutant of SemaphoreFree: acquire never waits.
SemaphoreFree_NeverWaits == TRUE

\* asyncio.Semaphore.acquire: a permit is taken only when one is free.
SemaphoreFree == permits > 0

\* The task ends: gather keeps what it returned or raised in its slot.
Finish(i, slot) ==
    /\ pc' = [ pc EXCEPT ![i] = "done" ]
    /\ outcome' = [ outcome EXCEPT ![i] = slot ]

\* Lines 63-112 of run_single_test, which run without a suspension once
\* RateLimiter.acquire has returned. setup = "raise": a line outside the try
\* block raises (test["headers"] is null, a cookie is no object), the exception
\* leaves the task and `async with semaphore` gives back the permit the task
\* holds (held = 1) or was about to keep (held = 0). Otherwise client.request(...)
\* is sent and the task waits for it, holding a permit.
AfterToken(i, setup, held) ==
    IF setup = "raise"
    THEN /\ Finish(i, [ kind |-> "exception", detail |-> Detail ])
         /\ permits' = permits + held
    ELSE /\ pc' = [ pc EXCEPT ![i] = "inflight" ]
         /\ permits' = permits - (1 - held)
         /\ UNCHANGED outcome

\* run_with_semaphore up to its first suspension: `async with semaphore` takes a
\* permit, the client opens, and RateLimiter.acquire reads the clock: the task
\* either goes to sleep for the rest of the interval, or stamps
\* last_request_time, has its token and goes on to send.
Enter(i) ==
    /\ UNCHANGED otherThanReplay
    /\ runner = "gather"
    /\ pc[i] = "pending"
    /\ SemaphoreFree
    /\ LET time_since_last == now - last_request_time IN
       IF time_since_last < MinInterval
       THEN /\ wake' = [ wake EXCEPT ![i] = now + (MinInterval - time_since_last) ]
            /\ pc' = [ pc EXCEPT ![i] = "sleeping" ]
            /\ permits' = permits - 1
            /\ UNCHANGED << last_request_time, tokens, outcome >>
       ELSE /\ last_request_time' = now
            /\ tokens' = Append(tokens, now)
            /\ \E setup \in { "ok", "raise" } : AfterToken(i, setup, 0)
            /\ UNCHANGED wake
    /\ UNCHANGED << tests, concurrency, now, runner, processed_results, output_file >>

\* `async with httpx.AsyncClient()` fails to open: the exception leaves the task
\* before RateLimiter.acquire is called, and the permit just taken is given back.
ClientOpenFailure(i) ==
    /\ UNCHANGED otherThanReplay
    /\ runner = "gather"
    /\ pc[i] = "pending"
    /\ SemaphoreFree
    /\ Finish(i, [ kind |-> "exception", detail |-> Detail ])
    /\ UNCHANGED << tests, concurrency, now, last_request_time, permits, wake,
                    tokens, runner, processed_results, output_file >>

\* RateLimiter.acquire after asyncio.sleep: last_request_time is stamped with the
\* clock as it is now, whatever the other tasks did meanwhile, and the task has
\* its token.
Wake(i) ==
    /\ UNCHANGED otherThanReplay
    /\ runner = "gather"
    /\ pc[i] = "sleeping"
    /\ now >= wake[i]
    /\ last_request_time' = now
    /\ tokens' = Append(tokens, now)
    /\ \E setup \in { "ok", "raise" } : AfterToken(i, setup, 1)
    /\ wake' = [ wake EXCEPT ![i] = 0 ]
    /\ UNCHANGED << tests, concurrency, now, runner, processed_results,
                    output_file >>

\* client.request ends, with a response or one of the three classes of failure;
\* run_single_test returns its result and the permit is given back.
Respond(i) ==
    /\ UNCHANGED otherThanReplay
    /\ runner = "gather"
    /\ pc[i] = "inflight"
    /\ \E how \in Outcomes :
          Finish(i, [ kind |-> "result", met |-> how, result |-> ResultFor(i, how) ])
    /\ permits' = permits + 1
    /\ UNCHANGED << tests, concurrency, now, last_request_time, wake, tokens,
                    runner, processed_results, output_file >>

\* A task in asyncio.sleep whose delay has not run out.
StillAsleep(i) == pc[i] = "sleeping" /\ now < wake[i]

\* The event loop's clock advances. The clock is followed up to MaxTime, and
\* past it for as long as a sleep is running, since every sleep ends.
Tick ==
    /\ UNCHANGED otherThanReplay
    /\ runner = "gather"
    /\ now < MaxTime \/ \E i \in Tasks : StillAsleep(i)
    /\ now' = now + 1
    /\ UNCHANGED << tests, concurrency, last_request_time, permits, pc, wake,
                    tokens, outcome, runner, processed_results, output_file >>

\* Mutant of Processed: the entry made for an exception names the test by the
\* default "unknown" instead of tests[i]'s test_id.
Processed_UnknownId(i) ==
    IF outcome[i].kind = "exception"
    THEN [ test_id |-> << "unknown" >>, success |-> FALSE,
           error |-> << outcome[i].detail >> ]
    ELSE outcome[i].result

\* run_tests' loop over gather's results (lines 182-192).
Processed(i) ==
    IF outcome[i].kind = "exception"
    THEN [ test_id |-> tests[i].test_id, success |-> FALSE,
           error |-> << outcome[i].detail >> ]
    ELSE outcome[i].result

\* gather(*tasks, return_exceptions=True) returns once every task has ended;
\* run_tests processes the results, writes the file and returns.
Finalize ==
    /\ UNCHANGED otherThanReplay
    /\ runner = "gather"
    /\ \A i \in Tasks : pc[i] = "done"
    /\ processed_results' = [ i \in Tasks |-> Processed(i) ]
    /\ output_file' = Written(processed_results')
    /\ runner' = "returned"
    /\ UNCHANGED << tests, concurrency, now, last_request_time, permits, pc, wake,
                    tokens, outcome >>

\* The run is cancelled while `await asyncio.gather(...)` is pending: gather
\* cancels every task that has not ended, CancelledError (a BaseException, which
\* `except Exception` does not catch) leaves each of them, and gather raises
\* CancelledError into run_tests at line 179: lines 181-202 do not run.
CancelRun ==
    /\ UNCHANGED otherThanReplay
    /\ runner = "gather"
    /\ \E i \in Tasks : pc[i] # "done"
    /\ pc' = [ i \in Tasks |-> "done" ]
    /\ outcome' = [ i \in Tasks |->
                      IF pc[i] = "done" THEN outcome[i] ELSE [ kind |-> "cancelled" ] ]
    /\ permits' = concurrency
    /\ wake' = [ i \in Tasks |-> 0 ]
    /\ runner' = "raised"
    /\ UNCHANGED << tests, concurrency, now, last_request_time, tokens,
                    processed_results, output_file >>

ReplayIdle ==
    /\ tests = << >>
    /\ concurrency = 0
    /\ now = 0
    /\ last_request_time = 0
    /\ permits = 0
    /\ pc = << >>
    /\ wake = << >>
    /\ tokens = << >>
    /\ outcome = << >>
    /\ runner = "idle"
    /\ processed_results = << >>
    /\ output_file = Unwritten

GenIdle ==
    /\ endpoints = << >>
    /\ max_tests = 0
    /\ allow_destructive = FALSE
    /\ gen_idx = 0
    /\ idor_i = 0
    /\ idor_tests = << >>
    /\ endpoint_tests = << >>
    /\ all_tests = << >>
    /\ tests_file = Unwritten
    /\ first_run = Unwritten

ParseIdle ==
    /\ requests_data = << >>
    /\ parse_phase = "idle"
    /\ parse_i = 0
    /\ endpoint_groups = << >>
    /\ parsed_endpoints = << >>

NotCalled == [ called |-> FALSE, fields |-> { } ]

SevIdle ==
    /\ sev_args = [ baseline_status |-> 0, test_status |-> 0, diff |-> NoDiff,
                    test_type |-> "" ]
    /\ sev_phase = "idle"
    /\ sensitive_changes = NotCalled
    /\ severity = ""

\* A turn of the analyzer's loop that emitted nothing.
NoTurn == [ emitted |-> FALSE ]

AnalyzeIdle ==
    /\ baseline_requests = << >>
    /\ test_results = << >>
    /\ an_tests = << >>
    /\ an_phase = "idle"
    /\ an_i = 0
    /\ an_last = NoTurn
    /\ findings = << >>
    /\ findings_file = Unwritten

\* An empty dict, and None where the code tests it as false.
EmptyDict == << >>

RequestIdle ==
    /\ rq_test = EmptyDict
    /\ rq_cookies = << >>
    /\ rq_headers = EmptyDict
    /\ rq_phase = "idle"
    /\ request_kwargs = EmptyDict

\* IDPool.__init__
NewPool ==
    [ integer_ids |-> { }, uuid_ids |-> { }, string_ids |-> { },
      inferred_type |-> "None" ]

PoolIdle ==
    /\ pool_values = << >>
    /\ pool_i = 0
    /\ pool_phase = "idle"
    /\ id_pool = NewPool

MassIdle ==
    /\ ma_endpoint = << >>
    /\ ma_count = 0
    /\ ma_phase = "idle"
    /\ ma_tests = << >>

InitReplay ==
    /\ PoolIdle
    /\ MassIdle
    /\ RequestIdle
    /\ AnalyzeIdle
    /\ GenIdle
    /\ ParseIdle
    /\ SevIdle
    /\ tests = [ i \in Tasks |-> [ test_id |-> TestIdOf(i) ] ]
    /\ concurrency \in 0..MaxConcurrency
    /\ now = 0
    /\ last_request_time = 0
    /\ permits = concurrency
    /\ pc = [ i \in Tasks |-> "pending" ]
    /\ wake = [ i \in Tasks |-> 0 ]
    /\ tokens = << >>
    /\ outcome = [ i \in Tasks |-> [ kind |-> "none" ] ]
    /\ runner = "gather"
    /\ processed_results = << >>
    /\ output_file = Unwritten

Init == InitReplay

Next ==
    \/ \E i \in Tasks : Enter(i)
    \/ \E i \in Tasks : ClientOpenFailure(i)
    \/ \E i \in Tasks : Wake(i)
    \/ \E i \in Tasks : Respond(i)
    \/ Tick
    \/ Finalize
    \/ CancelRun

Spec == Init /\ [][Next]_vars

\* The scheduling the replay engine runs under. The event loop runs every
\* callback that is ready: a task waiting in Semaphore.acquire is woken when a
\* permit is free (waiters are served first come, first served), a task in
\* asyncio.sleep is resumed once its delay has run out, and the clock goes on.
\* client.request is given timeout = 30.0 (line 102), so an attempt that is in
\* flight ends. Once every task has ended gather returns and run_tests goes on.
\* Nothing obliges a client to fail to open, or the run to be cancelled.
FairScheduling ==
    /\ \A i \in Tasks : WF_vars(Enter(i))
    /\ \A i \in Tasks : WF_vars(Wake(i))
    /\ \A i \in Tasks : WF_vars(Respond(i))
    /\ WF_vars(Tick)
    /\ WF_vars(Finalize)

SpecFair == Init /\ [][Next]_vars /\ FairScheduling

(***************************************************************************)
(* generate_tests as a state machine: one step per iteration of            *)
(* generate_idor_tests' loop (each draws from random), one step for the    *)
(* rest of an endpoint's turn, one for the save.                           *)
(***************************************************************************)

\* The enriched endpoints the runs are drawn from.
IntPool(name, ids) ==
    [ name |-> name, integer_ids |-> ids, uuid_ids |-> << >>, string_ids |-> << >> ]

UsersById ==
    [ method |-> "GET", templated_path |-> << "", "users", "{id:int}" >>,
      id_pools |-> << IntPool(<< "p", "a", "r", "a", "m", "_", "2" >>, << 1 >>) >>, sample_bodies |-> << >> ]
ProjectsById ==
    [ method |-> "GET", templated_path |-> << "", "projects", "{id:int}" >>,
      id_pools |-> << IntPool(<< "p", "a", "r", "a", "m", "_", "2" >>, << 100 >>) >>, sample_bodies |-> << >> ]
DeleteUser ==
    [ method |-> "DELETE", templated_path |-> << "", "users", "{id:int}" >>,
      id_pools |-> << >>, sample_bodies |-> << >> ]
CreateUser ==
    [ method |-> "POST", templated_path |-> << "", "users" >>,
      id_pools |-> << IntPool(<< "u", "s", "e", "r", "I", "d" >>, << 7 >>) >>,
      sample_bodies |-> << (<< "u", "s", "e", "r", "I", "d" >> :> 7) @@ (<< "n", "a", "m", "e" >> :> "a") >> ]
\* DELETE /users/{id:int} with a pool, and GET /users/{id:int} with two ids.
DeleteUserById == [ DeleteUser EXCEPT !.id_pools = << IntPool(<< "p", "a", "r", "a", "m", "_", "2" >>, << 1 >>) >> ]
UsersByTwoIds == [ UsersById EXCEPT !.id_pools = << IntPool(<< "p", "a", "r", "a", "m", "_", "2" >>, << 1, 2 >>) >> ]

EndpointUniverse == { UsersById, ProjectsById, DeleteUser, CreateUser }

MaxEndpoints == 2
MaxCap == 2

\* The endpoint sets of the runs: every list of up to MaxEndpoints endpoints of
\* the universe, and three more in which random.choice has a choice.
EndpointLists ==
    UNION { [ 1..n -> EndpointUniverse ] : n \in 1..MaxEndpoints }
    \cup { << UsersByTwoIds, ProjectsById >>, << UsersByTwoIds, CreateUser >>,
           << DeleteUserById, CreateUser >> }

\* A pool of string ids.
StrPool(name, ids) ==
    [ name |-> name, integer_ids |-> << >>, uuid_ids |-> << >>, string_ids |-> ids ]

\* GET /items/{param} with a query pool of user names, GET /refs with a query
\* pool in which one captured value is the text {param}, and GET /accounts
\* with a query pool that holds the id 0.
ItemsByParam ==
    [ method |-> "GET", templated_path |-> << "", "items", "{param}" >>,
      id_pools |-> << StrPool(<< "u", "s", "e", "r", "_", "i", "d" >>, << "alice" >>) >>,
      sample_bodies |-> << >> ]
Refs ==
    [ method |-> "GET", templated_path |-> << "", "refs" >>,
      id_pools |-> << StrPool(<< "r", "e", "f", "_", "i", "d" >>, << "{param}", "alice" >>) >>,
      sample_bodies |-> << >> ]
Accounts ==
    [ method |-> "GET", templated_path |-> << "", "accounts" >>,
      id_pools |-> << IntPool(<< "a", "c", "c", "o", "u", "n", "t", "_", "i", "d" >>, << 0, 5 >>) >>,
      sample_bodies |-> << >> ]

\* Two more endpoint sets: one with string ids, one with the id 0.
EdgeLists == { << ItemsByParam, Refs >>, << UsersById, Accounts >> }

\* One iteration of generate_idor_tests' loop for the endpoint in turn:
\* random.choice picks the source pool, the original id and the target id.
IdorIteration ==
    /\ UNCHANGED otherThanGen
    /\ gen_idx \in 1..Len(endpoints)
    /\ idor_i < IdorIterations(endpoints[gen_idx])
    /\ LET endpoint == endpoints[gen_idx] IN
       \E sp \in 1..Len(endpoint.id_pools) :
          LET source_pool_name == endpoint.id_pools[sp].name
              source_ids == PoolIds(endpoint.id_pools[sp])
          IN  IF source_ids = << >>
              THEN idor_tests' = idor_tests
              ELSE \E oi \in 1..Len(source_ids) :
                      LET original_id == source_ids[oi]
                          tp == TargetPool(endpoints, source_pool_name, original_id)
                      IN  IF tp = 0
                          THEN idor_tests' = idor_tests
                          ELSE LET target_pool_name == AllPoolNames(endpoints)[tp]
                                   candidate_ids ==
                                       CandidateIds(AllPoolIds(endpoints, target_pool_name),
                                                    original_id)
                               IN  \E c \in 1..Len(candidate_ids) :
                                      idor_tests' =
                                          IF Falsy(candidate_ids[c]) THEN idor_tests
                                          ELSE Append(idor_tests,
                                                      IdorTest(endpoint, idor_i,
                                                               source_pool_name, original_id,
                                                               target_pool_name,
                                                               candidate_ids[c]))
    /\ idor_i' = idor_i + 1
    /\ UNCHANGED << endpoints, max_tests, allow_destructive, gen_idx, endpoint_tests,
                    all_tests, tests_file >>

\* The rest of the endpoint's turn in generate_tests' loop (lines 292-311).
FinishEndpoint ==
    /\ UNCHANGED otherThanGen
    /\ gen_idx \in 1..Len(endpoints)
    /\ idor_i >= IdorIterations(endpoints[gen_idx])
    /\ LET kept == EndpointTests(endpoints[gen_idx], idor_tests, max_tests,
                                 allow_destructive)
       IN  /\ endpoint_tests' = Append(endpoint_tests, kept)
           /\ all_tests' = all_tests \o kept
    /\ gen_idx' = gen_idx + 1
    /\ idor_i' = 0
    /\ idor_tests' = << >>
    /\ UNCHANGED << endpoints, max_tests, allow_destructive, tests_file >>

\* generate_tests after its loop: the tests are written (lines 317-321).
SaveTests ==
    /\ UNCHANGED otherThanGen
    /\ gen_idx = Len(endpoints) + 1
    /\ ~tests_file.written
    /\ tests_file' = Written(all_tests)
    /\ UNCHANGED << endpoints, max_tests, allow_destructive, gen_idx, idor_i,
                    idor_tests, endpoint_tests, all_tests >>

InitGen ==
    /\ PoolIdle
    /\ MassIdle
    /\ RequestIdle
    /\ AnalyzeIdle
    /\ ReplayIdle
    /\ ParseIdle
    /\ SevIdle
    /\ endpoints \in EndpointLists \cup EdgeLists
    /\ max_tests \in (0..MaxCap) \cup { DEFAULT_MAX_TESTS_PER_ENDPOINT }
    /\ allow_destructive \in BOOLEAN
    /\ gen_idx = 1
    /\ idor_i = 0
    /\ idor_tests = << >>
    /\ endpoint_tests = << >>
    /\ all_tests = << >>
    /\ tests_file = Unwritten
    /\ first_run = Unwritten

NextGen == IdorIteration \/ FinishEndpoint \/ SaveTests

SpecGen == InitGen /\ [][NextGen]_vars

\* generate_tests is run once more on the same endpoints file with the same
\* max_tests and allow_destructive; the first run's output is kept aside.
\* Nothing in the program seeds the random module or takes a seed, so the
\* draws of the second run are as free as those of the first.
RunAgain ==
    /\ UNCHANGED << replayVars, parseVars, sevVars, anVars, rqVars, poolVars, maVars >>
    /\ tests_file.written
    /\ ~first_run.written
    /\ first_run' = tests_file
    /\ tests_file' = Unwritten
    /\ gen_idx' = 1
    /\ idor_i' = 0
    /\ idor_tests' = << >>
    /\ endpoint_tests' = << >>
    /\ all_tests' = << >>
    /\ UNCHANGED << endpoints, max_tests, allow_destructive >>

\* The runs that are repeated: those of InitGen on the endpoint sets of
\* EndpointLists with a cap of at most MaxCap.
InitGenTwice ==
    /\ InitGen
    /\ endpoints \in EndpointLists
    /\ max_tests \in 0..MaxCap

NextGenTwice == NextGen \/ RunAgain

SpecGenTwice == InitGenTwice /\ [][NextGenTwice]_vars

(***************************************************************************)
(* generate_mass_assignment_tests called on its own, with any count up to  *)
(* the size of the vocabulary.                                             *)
(***************************************************************************)

\* PUT /users, captured without a body.
ReplaceUser ==
    [ method |-> "PUT", templated_path |-> << "", "users" >>,
      id_pools |-> << >>, sample_bodies |-> << >> ]

CallMassAssignment ==
    /\ UNCHANGED otherThanMass
    /\ ma_phase = "called"
    /\ ma_tests' = GenerateMassAssignmentTests(ma_endpoint, ma_count)
    /\ ma_phase' = "returned"
    /\ UNCHANGED << ma_endpoint, ma_count >>

InitMass ==
    /\ ReplayIdle
    /\ GenIdle
    /\ ParseIdle
    /\ SevIdle
    /\ AnalyzeIdle
    /\ RequestIdle
    /\ PoolIdle
    /\ ma_endpoint \in EndpointUniverse \cup { ReplaceUser }
    /\ ma_count \in 0..Len(SUSPICIOUS_FIELDS)
    /\ ma_phase = "called"
    /\ ma_tests = << >>

NextMass == CallMassAssignment

SpecMass == InitMass /\ [][NextMass]_vars

(***************************************************************************)
(* parse_requests as a state machine: one step per captured request of the *)
(* grouping loop, one per group of the building loop, one for the return.  *)
(***************************************************************************)

Url(path) == [ path |-> path, query |-> << >> ]

\* A captured request with its post_data and the body of its response
\* (responded says whether the record has a "response" at all).
CapturedWith(method, path, responded, post_data, response_body) ==
    [ method |-> method, url |-> Url(path), has_response |-> responded,
      post_data |-> post_data, response_body |-> response_body ]

\* A captured request without post_data and with an empty response body.
Captured(method, path, responded) ==
    CapturedWith(method, path, responded, << >>, << >>)

\* The text of a JSON array of numbers, "[1,2]".
IsJsonArray(body) ==
    /\ Len(body) >= 2
    /\ body[1] = "["
    /\ body[Len(body)] = "]"
    /\ LET inner == SubSeq(body, 2, Len(body) - 1) IN
       inner = << >> \/ \A k \in 1..Len(Split(inner, ",")) : IsDecimal(Split(inner, ",")[k])

\* extract_json_body: None for an empty or unreadable body and for a text
\* json.loads rejects; else what json.loads returns, which is a dict only for
\* the text of an object.
ExtractJsonBody(body) ==
    IF body = << >> \/ body = UnableToReadBody THEN [ kind |-> "none", value |-> << >> ]
    ELSE IF JsonLoads(body).ok THEN [ kind |-> "dict", value |-> JsonLoads(body).value ]
    ELSE IF IsJsonArray(body)
    THEN [ kind |-> "list", value |-> Split(SubSeq(body, 2, Len(body) - 1), ",") ]
    ELSE IF IsDecimal(body) THEN [ kind |-> "int", value |-> body ]
    ELSE [ kind |-> "none", value |-> << >> ]

\* `if json_body:` -- None, {}, [] and 0 are false.
JsonTruthy(json_body) ==
    CASE json_body.kind = "none" -> FALSE
      [] json_body.kind = "dict" -> DOMAIN json_body.value # { }
      [] json_body.kind = "list" -> json_body.value # << >> /\ json_body.value # << << >> >>
      [] json_body.kind = "int" -> \E k \in 1..Len(json_body.value) : json_body.value[k] # "0"

\* body_str of a request (lines 192-196): its post_data, or when that is
\* empty the body of its response.
BodyStr(req) == IF req.post_data # << >> THEN req.post_data ELSE req.response_body

\* json_body.items() raises AttributeError: the body is a JSON value that is
\* true and not a dict.
ItemsRaises(req) ==
    /\ JsonTruthy(ExtractJsonBody(BodyStr(req)))
    /\ ExtractJsonBody(BodyStr(req)).kind # "dict"

\* sample_bodies of a group (lines 188-200), when nothing raises.
SampleBodies(requests) ==
    Flatten([ r \in 1..Len(requests) |->
                IF JsonTruthy(ExtractJsonBody(BodyStr(requests[r])))
                THEN << ExtractJsonBody(BodyStr(requests[r])).value >> ELSE << >> ])

\* body_params of a group (lines 201-206): the values seen for each key.
BodyParams(requests) ==
    LET bodies == SampleBodies(requests)
        keys == UNION { DOMAIN bodies[b] : b \in 1..Len(bodies) }
    IN  [ key \in keys |->
            { bodies[b][key] : b \in { b \in 1..Len(bodies) : key \in DOMAIN bodies[b] } } ]

\* The EndpointModel of a group, with what the bodies of its requests gave.
EndpointWithBodies(group) ==
    [ method |-> EndpointOf(group).method,
      templated_path |-> EndpointOf(group).templated_path,
      path_params |-> EndpointOf(group).path_params,
      body_params |-> BodyParams(group.requests),
      sample_bodies |-> PyPrefix(SampleBodies(group.requests), 5) ]

\* The captured requests the logs are drawn from.
RequestUniverse ==
    { Captured("GET", << "/", "a", "p", "i", "/", "u", "s", "e", "r", "s", "/", "4", "2" >>, TRUE),
      Captured("GET", << "/", "a", "p", "i", "/", "u", "s", "e", "r", "s", "/", "4", "3" >>, TRUE),
      Captured("POST", << "/", "a", "p", "i", "/", "u", "s", "e", "r", "s", "/", "4", "2" >>, TRUE),
      Captured("GET", << "/", "a", "p", "i", "/", "u", "s", "e", "r", "s" >>, TRUE),
      Captured("GET", << "/", "a", "p", "i", "/", "u", "s", "e", "r", "s", "/", "4", "4" >>, FALSE),
      CapturedWith("POST", << "/", "a", "p", "i", "/", "u", "s", "e", "r", "s" >>, TRUE,
                   << "{", "\"", "a", "\"", ":", "1", "}" >>, << "{", "\"", "b", "\"", ":", "2", "}" >>),
      CapturedWith("POST", << "/", "a", "p", "i", "/", "u", "s", "e", "r", "s" >>, TRUE,
                   << "n", "o", "p", "e" >>, << "o", "k" >>),
      CapturedWith("POST", << "/", "a", "p", "i", "/", "u", "s", "e", "r", "s" >>, TRUE,
                   << "[", "1", "]" >>, << "o", "k" >>),
      CapturedWith("GET", << "/", "a", "p", "i", "/", "m", "e" >>, TRUE,
                   << >>, << "{", "\"", "b", "\"", ":", "2", "}" >>),
      Captured("GET", << "/", "x", "/", "7" >>, TRUE),
      Captured("GET", << "/", "x", "/", "5", "5", "0", "e", "8", "4", "0", "0", "-", "e", "2", "9", "b", "-", "4", "1", "d", "4", "-", "a", "7", "1", "6", "-", "4", "4", "6", "6", "5", "5", "4", "4", "0", "0", "0", "0" >>, TRUE) }

MaxLog == 2

CaptureLogs == UNION { [ 1..n -> RequestUniverse ] : n \in 0..MaxLog }

\* One turn of `for req in requests_data` (lines 133-142).
GroupRequest ==
    /\ UNCHANGED otherThanParse
    /\ parse_phase = "group"
    /\ parse_i <= Len(requests_data)
    /\ LET req == requests_data[parse_i] IN
       endpoint_groups' =
           IF ~req.has_response THEN endpoint_groups
           ELSE AddToGroup(endpoint_groups, GroupKey(req), req)
    /\ parse_i' = parse_i + 1
    /\ UNCHANGED << requests_data, parse_phase, parsed_endpoints >>

\* The grouping loop is over; the loop over the groups starts (line 146).
StartBuilding ==
    /\ UNCHANGED otherThanParse
    /\ parse_phase = "group"
    /\ parse_i > Len(requests_data)
    /\ parse_phase' = "build"
    /\ parse_i' = 1
    /\ UNCHANGED << requests_data, endpoint_groups, parsed_endpoints >>

\* One turn of `for (method, base_path), requests in endpoint_groups.items()`;
\* an AttributeError of json_body.items() (line 202) ends parse_requests.
BuildEndpoint ==
    /\ UNCHANGED otherThanParse
    /\ parse_phase = "build"
    /\ parse_i <= Len(endpoint_groups)
    /\ IF \E r \in 1..Len(endpoint_groups[parse_i].requests) :
              ItemsRaises(endpoint_groups[parse_i].requests[r])
       THEN /\ parse_phase' = "raised"
            /\ UNCHANGED << parsed_endpoints, parse_i >>
       ELSE /\ parsed_endpoints' = Append(parsed_endpoints,
                                          EndpointWithBodies(endpoint_groups[parse_i]))
            /\ parse_i' = parse_i + 1
            /\ UNCHANGED parse_phase
    /\ UNCHANGED << requests_data, endpoint_groups >>

\* parse_requests returns its endpoints (line 236).
ReturnEndpoints ==
    /\ UNCHANGED otherThanParse
    /\ parse_phase = "build"
    /\ parse_i > Len(endpoint_groups)
    /\ parse_phase' = "returned"
    /\ UNCHANGED << requests_data, parse_i, endpoint_groups, parsed_endpoints >>

InitParse ==
    /\ PoolIdle
    /\ MassIdle
    /\ RequestIdle
    /\ AnalyzeIdle
    /\ ReplayIdle
    /\ GenIdle
    /\ SevIdle
    /\ requests_data \in CaptureLogs
    /\ parse_phase = "group"
    /\ parse_i = 1
    /\ endpoint_groups = << >>
    /\ parsed_endpoints = << >>

NextParse == GroupRequest \/ StartBuilding \/ BuildEndpoint \/ ReturnEndpoints

SpecParse == InitParse /\ [][NextParse]_vars

(***************************************************************************)
(* calculate_severity applied to arguments drawn from the statuses, the    *)
(* reports and the test types below.                                       *)
(***************************************************************************)

Report(category, paths) == category :> paths

Statuses == { 200, 201, 204, 400, 401, 403, 404, 500 }

Diffs ==
    { NoDiff,
      Report("values_changed", { << "r", "o", "o", "t", "[", "'", "e", "m", "a", "i", "l", "'", "]" >> }),
      Report("values_changed", { << "r", "o", "o", "t", "[", "'", "o", "w", "n", "e", "r", "I", "d", "'", "]" >> }),
      Report("values_changed", { << "r", "o", "o", "t", "[", "'", "n", "a", "m", "e", "'", "]" >> }),
      Report("values_changed", { << "r", "o", "o", "t", "[", "'", "U", "S", "E", "R", "_", "I", "D", "'", "]" >> }),
      Report("values_changed", { << "r", "o", "o", "t", "[", "'", "R", "o", "l", "e", "'", "]" >> }),
      Report("values_changed", { << "r", "o", "o", "t", "[", "'", "b", "o", "d", "y", "'", "]" >> }),
      Report("dictionary_item_added", { << "r", "o", "o", "t", "[", "'", "i", "s", "A", "d", "m", "i", "n", "'", "]" >> }),
      Report("dictionary_item_added", { << "r", "o", "o", "t", "[", "'", "i", "s", "_", "a", "d", "m", "i", "n", "'", "]" >> }),
      Report("dictionary_item_added", { << "r", "o", "o", "t", "[", "'", "u", "s", "e", "r", "I", "d", "'", "]" >>, << "r", "o", "o", "t", "[", "'", "n", "a", "m", "e", "'", "]" >> }),
      Report("dictionary_item_removed", { << "r", "o", "o", "t", "[", "'", "a", "c", "c", "e", "s", "s", "L", "e", "v", "e", "l", "'", "]" >> }),
      Report("dictionary_item_removed", { << "r", "o", "o", "t", "[", "'", "p", "e", "r", "m", "i", "s", "s", "i", "o", "n", "s", "'", "]" >> }),
      Report("type_changes", { << "r", "o", "o", "t", "[", "'", "e", "m", "a", "i", "l", "'", "]" >> }) }

TestTypes == { "IDOR", "AUTH_BYPASS", "MASS_ASSIGNMENT" }

\* One call of calculate_severity, to its return.
Severity ==
    /\ UNCHANGED otherThanSev
    /\ sev_phase = "called"
    /\ sensitive_changes' =
           IF ReachesDetection(sev_args.baseline_status, sev_args.test_status,
                               sev_args.diff)
           THEN [ called |-> TRUE,
                  fields |-> DetectSensitiveFieldChanges(sev_args.diff) ]
           ELSE NotCalled
    /\ severity' = CalculateSeverity(sev_args.baseline_status, sev_args.test_status,
                                     sev_args.diff, sev_args.test_type)
    /\ sev_phase' = "returned"
    /\ UNCHANGED sev_args

InitSev ==
    /\ PoolIdle
    /\ MassIdle
    /\ RequestIdle
    /\ AnalyzeIdle
    /\ ReplayIdle
    /\ GenIdle
    /\ ParseIdle
    /\ sev_args \in [ baseline_status : Statuses, test_status : Statuses,
                      diff : Diffs, test_type : TestTypes ]
    /\ sev_phase = "called"
    /\ sensitive_changes = NotCalled
    /\ severity = ""

NextSev == Severity

SpecSev == InitSev /\ [][NextSev]_vars

(***************************************************************************)
(* analyze_results: the lookups, and the loop over the test results as a   *)
(* state machine (one step per result, one for the findings file).         *)
(***************************************************************************)

\* tests_by_id.get(test_id): the last test of that id, or none.
TestsById(test_id) ==
    LET places == { k \in 1..Len(an_tests) : an_tests[k].test_id = test_id }
    IN  IF places = { } THEN << >>
        ELSE << an_tests[CHOOSE k \in places : \A h \in places : h <= k] >>

\* Mutant of FindBaseline: no fallback to a captured request of the same
\* method when the (url, method) index misses.
FindBaseline_ExactOnly(test_url, test_method) ==
    LET exact == { k \in 1..Len(baseline_requests) :
                     /\ baseline_requests[k].url = test_url
                     /\ baseline_requests[k].method = test_method }
    IN  IF exact # { }
        THEN << baseline_requests[CHOOSE k \in exact : \A h \in exact : h <= k] >>
        ELSE << >>

\* The baseline of a (url, method): baseline_by_url_method's entry (the last
\* captured request of that key), else the first captured request of the
\* method, else none.
FindBaseline(test_url, test_method) ==
    LET exact == { k \in 1..Len(baseline_requests) :
                     /\ baseline_requests[k].url = test_url
                     /\ baseline_requests[k].method = test_method }
        similar == { k \in 1..Len(baseline_requests) :
                       baseline_requests[k].method = test_method }
    IN  IF exact # { }
        THEN << baseline_requests[CHOOSE k \in exact : \A h \in exact : h <= k] >>
        ELSE IF similar # { }
        THEN << baseline_requests[CHOOSE k \in similar : \A h \in similar : k <= h] >>
        ELSE << >>

\* generate_curl_command, as its cmd_parts.
GenerateCurlCommand(test, test_result) ==
    LET headers == test_result.response.headers
        kept == { k \in 1..Len(headers) :
                    Lower(headers[k][1]) \notin { << "c", "o", "n", "t", "e", "n", "t", "-", "l", "e", "n", "g", "t", "h" >>,
                                                  << "h", "o", "s", "t" >> } }
        HeaderParts(k) == IF k \in kept THEN << "-H", headers[k] >> ELSE << >>
        body_parts == IF test.body # NoBody /\ test.method \in { "POST", "PUT", "PATCH" }
                      THEN << "-d", test.body >> ELSE << >>
    IN  << "curl", "-X", test.method >>
            \o Flatten([ k \in 1..Len(headers) |-> HeaderParts(k) ])
            \o body_parts \o << test_result.url >>

\* Mutant of Finding: the finding is numbered by the place of its result.
Finding_NumberedByResult(n, severity_, test, test_result, baseline_status, test_status, diff) ==
    [ finding_id |-> << "finding_", an_i >>,
      severity |-> severity_,
      test_type |-> test.test_type,
      endpoint |-> test.endpoint,
      test_id |-> test.test_id,
      description |-> test.description,
      baseline_status |-> baseline_status,
      test_status |-> test_status,
      diff_summary |-> diff,
      curl_command |-> GenerateCurlCommand(test, test_result) ]

\* Finding.__init__ and to_dict; diff_summary is the report that str(diff)
\* prints, empty for no diff.
Finding(n, severity_, test, test_result, baseline_status, test_status, diff) ==
    [ finding_id |-> << "finding_", n >>,
      severity |-> severity_,
      test_type |-> test.test_type,
      endpoint |-> test.endpoint,
      test_id |-> test.test_id,
      description |-> test.description,
      baseline_status |-> baseline_status,
      test_status |-> test_status,
      diff_summary |-> diff,
      curl_command |-> GenerateCurlCommand(test, test_result) ]

\* A captured request of requests.json, as the analyzer reads it.
BaselineRequest(method, url, responded, status, body) ==
    [ method |-> method, url |-> url, has_response |-> responded,
      response |-> [ status |-> status, body |-> body ] ]

\* A result of test_results.json that run_single_test wrote after a response.
ResponseResult(test_id, url, status, body, headers) ==
    [ test_id |-> test_id, url |-> url, success |-> TRUE, has_response |-> TRUE,
      response |-> [ status |-> status, body |-> body, headers |-> headers ] ]

\* A result of test_results.json for a test that got no response.
FailedResult(test_id, url) ==
    [ test_id |-> test_id, url |-> url, success |-> FALSE, has_response |-> FALSE,
      response |-> [ status |-> 0, body |-> << >>, headers |-> << >> ] ]

UsersUrl == "https://h/users/2"
CreateUrl == "https://h/users"

AnalyzerTests ==
    << TestCase(<< "idor", 0 >>, "IDOR", "/users/{id:int}", "GET", UsersUrl,
                NoBody, TRUE, << "IDOR" >>),
       TestCase(<< "auth_bypass", 0 >>, "AUTH_BYPASS", "/users", "POST", CreateUrl,
                NoBody, FALSE, << "Auth bypass" >>),
       TestCase(<< "auth_bypass", 1 >>, "AUTH_BYPASS", "/users/{id:int}", "GET", UsersUrl,
                NoBody, FALSE, << "Auth bypass" >>) >>

BaselineUniverse ==
    { BaselineRequest("GET", UsersUrl, TRUE, 200, << "{", "\"", "x", "\"", ":", "1", "}" >>),
      BaselineRequest("GET", "https://h/users/1", TRUE, 500, << "a", "b" >>),
      BaselineRequest("POST", CreateUrl, TRUE, 403, << "{", "}" >>),
      BaselineRequest("GET", "https://h/users/3", FALSE, 0, << >>) }

ContentLength == << << "C", "o", "n", "t", "e", "n", "t", "-", "L", "e", "n", "g", "t", "h" >>, << "7" >> >>

ResultUniverse ==
    { ResponseResult(<< "idor", 0 >>, UsersUrl, 200, << "{", "\"", "x", "\"", ":", "2", "}" >>, << >>),
      ResponseResult(<< "idor", 0 >>, UsersUrl, 200, << "{", "\"", "x", "\"", ":", "1", ",", "\"", "e", "m", "a", "i", "l", "\"", ":", "1", "}" >>, << ContentLength >>),
      ResponseResult(<< "idor", 0 >>, UsersUrl, 500, << "a", "b", "c", "d", "e", "f" >>, << >>),
      ResponseResult(<< "idor", 0 >>, UsersUrl, 200, << "{", "\"", "x", "\"", ":", "1", ",", "\"", "n", "\"", ":", "1", "}" >>, << >>),
      ResponseResult(<< "auth_bypass", 1 >>, UsersUrl, 200, << "{", "\"", "x", "\"", ":", "2", "}" >>, << >>),
      ResponseResult(<< "auth_bypass", 0 >>, CreateUrl, 200, << "{", "\"", "x", "\"", ":", "1", "}" >>, << >>),
      ResponseResult(<< "unknown" >>, UsersUrl, 200, << "{", "\"", "x", "\"", ":", "1", "}" >>, << >>),
      FailedResult(<< "idor", 0 >>, UsersUrl) }

MaxBaselines == 2
MaxResults == 2

\* One turn of `for test_result in test_results` (lines 266-326).
AnalyzeResult ==
    /\ UNCHANGED otherThanAnalyze
    /\ an_phase = "loop"
    /\ an_i <= Len(test_results)
    /\ LET test_result == test_results[an_i]
           found == TestsById(test_result.test_id)
           test == found[1]
           baselines == FindBaseline(test_result.url, test.method)
           baseline == baselines[1]
           baseline_status == baseline.response.status
           test_status == test_result.response.status
           diff == CompareResponses(baseline, test_result)
           severity_ == CalculateSeverity(baseline_status, test_status, diff,
                                          test.test_type)
       IN  IF \/ ~test_result.success
              \/ found = << >>
              \/ baselines = << >>
              \/ ~baseline.has_response
           THEN /\ an_last' = NoTurn
                /\ UNCHANGED findings
           ELSE /\ an_last' = [ emitted |-> TRUE, baseline |-> baseline,
                                test_result |-> test_result, test |-> test,
                                diff |-> diff, severity |-> severity_ ]
                /\ findings' = Append(findings,
                                      Finding(Len(findings) + 1, severity_, test,
                                              test_result, baseline_status,
                                              test_status, diff))
    /\ an_i' = an_i + 1
    /\ UNCHANGED << baseline_requests, test_results, an_tests, an_phase,
                    findings_file >>

\* The loop is over: the findings are dumped and returned (lines 328-339).
SaveFindings ==
    /\ UNCHANGED otherThanAnalyze
    /\ an_phase = "loop"
    /\ an_i > Len(test_results)
    /\ findings_file' = Written(findings)
    /\ an_phase' = "returned"
    /\ UNCHANGED << baseline_requests, test_results, an_tests, an_i, an_last,
                    findings >>

InitAnalyze ==
    /\ PoolIdle
    /\ MassIdle
    /\ RequestIdle
    /\ ReplayIdle
    /\ GenIdle
    /\ ParseIdle
    /\ SevIdle
    /\ baseline_requests \in
           UNION { [ 1..n -> BaselineUniverse ] : n \in 0..MaxBaselines }
    /\ test_results \in UNION { [ 1..n -> ResultUniverse ] : n \in 0..MaxResults }
    /\ an_tests = AnalyzerTests
    /\ an_phase = "loop"
    /\ an_i = 1
    /\ an_last = NoTurn
    /\ findings = << >>
    /\ findings_file = Unwritten

NextAnalyze == AnalyzeResult \/ SaveFindings

SpecAnalyze == InitAnalyze /\ [][NextAnalyze]_vars

(***************************************************************************)
(* Request preparation: run_single_test from its arguments to the call of  *)
(* client.request (runner/test_runner.py, lines 63-112).  A dict is a      *)
(* function from its keys; header names are compared as dict keys are.     *)
(***************************************************************************)

\* settings.DEFAULT_RESEARCHER_HEADER
DEFAULT_RESEARCHER_HEADER == "User-Agent" :> "surfacerecon/1.0"

\* d.update(e)
Update(d, e) ==
    [ k \in (DOMAIN d) \cup (DOMAIN e) |-> IF k \in DOMAIN e THEN e[k] ELSE d[k] ]

\* Mutant of MergeHeaders: the caller's headers are laid over the researcher
\* header instead of under it.
MergeHeaders_CallerOverResearcher(headers, test_headers) ==
    Update(Update(DEFAULT_RESEARCHER_HEADER, headers), test_headers)

\* request_headers of run_single_test (lines 70-76).
MergeHeaders(headers, test_headers) ==
    LET with_caller == IF headers # EmptyDict THEN Update(EmptyDict, headers)
                       ELSE EmptyDict
        with_researcher == IF DEFAULT_RESEARCHER_HEADER # EmptyDict
                           THEN Update(with_caller, DEFAULT_RESEARCHER_HEADER)
                           ELSE with_caller
    IN  Update(with_researcher, test_headers)

\* cookie_dict of run_single_test (lines 79-82): a later cookie of a name
\* replaces an earlier one.
CookieDict(use_cookies, cookies) ==
    IF use_cookies /\ cookies # << >>
    THEN LET names == { cookies[k].name : k \in 1..Len(cookies) }
             Last(name) == CHOOSE k \in 1..Len(cookies) :
                               /\ cookies[k].name = name
                               /\ \A h \in (k + 1)..Len(cookies) : cookies[h].name # name
         IN  [ name \in names |-> cookies[Last(name)].value ]
    ELSE EmptyDict

\* request_kwargs of run_single_test (lines 98-109).
RequestKwargs(test, cookies, headers) ==
    LET cookie_dict == CookieDict(test.cookies, cookies)
        base == [ method |-> test.method, url |-> test.url,
                  headers |-> MergeHeaders(headers, test.headers),
                  timeout |-> 30 ]
        with_cookies == IF cookie_dict # EmptyDict
                        THEN ("cookies" :> cookie_dict) @@ base ELSE base
    IN  IF /\ test.body.present
           /\ test.body.fields # EmptyDict
           /\ test.method \in { "POST", "PUT", "PATCH" }
        THEN ("json" :> test.body.fields) @@ with_cookies
        ELSE with_cookies

\* The tests the requests are prepared for, before their headers are set.
RequestTests ==
    { TestCase(<< "idor", 0 >>, "IDOR", "/users/{id:int}", "GET", "/users/7",
               NoBody, TRUE, << "IDOR" >>),
      TestCase(<< "auth_bypass", 0 >>, "AUTH_BYPASS", "/users/{id:int}", "GET",
               "/users/{id:int}", NoBody, FALSE, << "Auth bypass" >>),
      TestCase(<< "mass_assignment", 0 >>, "MASS_ASSIGNMENT", "/users", "POST",
               "/users", Body("isAdmin" :> "True"), TRUE, << "Mass assignment" >>) }

\* The headers of a test: none as the generator writes them, or an override.
TestHeaders ==
    { EmptyDict, "User-Agent" :> "test-agent", "user-agent" :> "test-agent",
      "X-Test" :> "1" }

\* The caller's headers (the --header file): None, or a JSON object.
CallerHeaders ==
    { EmptyDict, "User-Agent" :> "caller-agent", "user-agent" :> "caller-agent",
      "Authorization" :> "Bearer t",
      ("Authorization" :> "Bearer t") @@ ("User-Agent" :> "caller-agent") }

Cookie(name, value) == [ name |-> name, value |-> value ]

\* The caller's cookies (the --cookie file): None, or a JSON array.
CallerCookies ==
    { << >>, << Cookie("sid", "s1") >>,
      << Cookie("sid", "s1"), Cookie("csrf", "c1") >>,
      << Cookie("sid", "s1"), Cookie("sid", "s2") >> }

\* run_single_test from line 63 to the call of client.request.
SendRequest ==
    /\ UNCHANGED otherThanRequest
    /\ rq_phase = "called"
    /\ request_kwargs' = RequestKwargs(rq_test, rq_cookies, rq_headers)
    /\ rq_phase' = "sent"
    /\ UNCHANGED << rq_test, rq_cookies, rq_headers >>

InitRequest ==
    /\ PoolIdle
    /\ MassIdle
    /\ ReplayIdle
    /\ GenIdle
    /\ ParseIdle
    /\ SevIdle
    /\ AnalyzeIdle
    /\ rq_test \in { [ t EXCEPT !.headers = h ] : t \in RequestTests, h \in TestHeaders }
    /\ rq_cookies \in CallerCookies
    /\ rq_headers \in CallerHeaders
    /\ rq_phase = "called"
    /\ request_kwargs = EmptyDict

NextRequest == SendRequest

SpecRequest == InitRequest /\ [][NextRequest]_vars

(***************************************************************************)
(* ID inference: parser/id_inference.py.  A value is a JSON value: a       *)
(* native integer, a boolean (an int to isinstance), a string, or another  *)
(* value (a float, null), known by the text str() gives it.                *)
(***************************************************************************)

IntValue(n) == [ kind |-> "int", int |-> n, text |-> << >> ]
BoolValue(b) == [ kind |-> "bool", int |-> IF b THEN 1 ELSE 0, text |-> << >> ]
StrValue(s) == [ kind |-> "str", int |-> 0, text |-> s ]
OtherValue(s) == [ kind |-> "other", int |-> 0, text |-> s ]

\* is_integer_id
IsIntegerId(value) ==
    \/ value.kind \in { "int", "bool" }
    \/ value.kind = "str" /\ IsDigit(value.text)

\* is_uuid
IsUuidValue(value) == value.kind = "str" /\ IsUuid(value.text)

\* The value of a decimal digit.
DigitValue(c) ==
    CHOOSE d \in 0..9 : << "0", "1", "2", "3", "4", "5", "6", "7", "8", "9" >>[d + 1] = c

RECURSIVE IntOf(_)
\* int(s) of a string of decimal digits.
IntOf(s) ==
    IF s = << >> THEN 0
    ELSE 10 * IntOf(SubSeq(s, 1, Len(s) - 1)) + DigitValue(s[Len(s)])

\* int(value) raises ValueError.
IntRaises(value) == value.kind = "str" /\ ~IsDecimal(value.text)

\* IDPool.add, for a value on which int() does not raise.
PoolAdd(p, value) ==
    LET q == IF IsIntegerId(value)
             THEN [ p EXCEPT !.integer_ids =
                        @ \cup { IF value.kind = "str" THEN IntOf(value.text)
                                 ELSE value.int } ]
             ELSE IF IsUuidValue(value)
             THEN [ p EXCEPT !.uuid_ids = @ \cup { value.text } ]
             ELSE [ p EXCEPT !.string_ids = @ \cup { value.text } ]
    IN  [ q EXCEPT !.inferred_type =
              IF q.integer_ids # { } THEN "int"
              ELSE IF q.uuid_ids # { } THEN "uuid"
              ELSE IF q.string_ids # { } THEN "string"
              ELSE p.inferred_type ]

\* The values added to a pool.
ValueUniverse ==
    { IntValue(42), BoolValue(TRUE),
      StrValue(<< "4", "2" >>), StrValue(<< "7" >>),
      StrValue(<< "5", "5", "0", "e", "8", "4", "0", "0", "-", "e", "2", "9", "b", "-", "4", "1", "d", "4", "-", "a", "7", "1", "6", "-", "4", "4", "6", "6", "5", "5", "4", "4", "0", "0", "0", "0" >>),
      StrValue(<< "5", "5", "0", "E", "8", "4", "0", "0", "-", "E", "2", "9", "B", "-", "4", "1", "D", "4", "-", "A", "7", "1", "6", "-", "4", "4", "6", "6", "5", "5", "4", "4", "0", "0", "0", "0" >>),
      StrValue(<< "a", "b", "c" >>), OtherValue(<< "1", ".", "5" >>),
      StrValue(<< "²" >>) }

MaxAdds == 2

\* One call of IDPool.add: the value goes to a set, or int() raises and the
\* call (and the inference that made it) ends there.
AddValue ==
    /\ UNCHANGED otherThanPool
    /\ pool_phase = "adding"
    /\ pool_i <= Len(pool_values)
    /\ LET value == pool_values[pool_i] IN
       IF IsIntegerId(value) /\ IntRaises(value)
       THEN /\ pool_phase' = "raised"
            /\ UNCHANGED << id_pool, pool_i >>
       ELSE /\ id_pool' = PoolAdd(id_pool, value)
            /\ pool_i' = pool_i + 1
            /\ UNCHANGED pool_phase
    /\ UNCHANGED pool_values

\* Every value was added.
AddsDone ==
    /\ UNCHANGED otherThanPool
    /\ pool_phase = "adding"
    /\ pool_i > Len(pool_values)
    /\ pool_phase' = "done"
    /\ UNCHANGED << pool_values, pool_i, id_pool >>

InitPool ==
    /\ ReplayIdle
    /\ GenIdle
    /\ ParseIdle
    /\ SevIdle
    /\ AnalyzeIdle
    /\ RequestIdle
    /\ MassIdle
    /\ pool_values \in UNION { [ 1..n -> ValueUniverse ] : n \in 0..MaxAdds }
    /\ pool_i = 1
    /\ pool_phase = "adding"
    /\ id_pool = NewPool

NextPool == AddValue \/ AddsDone

SpecPool == InitPool /\ [][NextPool]_vars

(***************************************************************************)
(* Claims about the replay engine, checked under Spec.                     *)
(***************************************************************************)

\* C1: any two rate tokens (returns of RateLimiter.acquire) are issued at least
\* 1/R apart, under every interleaving of the tasks sharing the limiter.
C1_TokensSpaced ==
    \A a, b \in 1..Len(tokens) : a < b => tokens[b] - tokens[a] >= MinInterval

\* The tasks inside the section `async with semaphore` guards.
InSection == { i \in Tasks : pc[i] \in { "sleeping", "inflight" } }

\* C2: at no time are more than C tasks inside the semaphore-guarded section
\* (from rate-token acquisition to the end of the response read).
C2_ConcurrencyBound == Cardinality(InSection) <= concurrency

\* C2's case: the section is full with a request in flight and a task waits.
C2_Witness ==
    /\ Cardinality(InSection) = concurrency
    /\ \E i \in Tasks : pc[i] = "inflight"
    /\ \E i \in Tasks : pc[i] = "pending"

\* C3: when run_tests returns, the results are as many as the tests and every
\* test_id of the test set is the test_id of exactly one result.
C3_ResultTotality ==
    runner = "returned" =>
        /\ Len(processed_results) = Len(tests)
        /\ \A i \in 1..Len(tests) :
              Cardinality({ k \in 1..Len(processed_results) :
                              processed_results[k].test_id = tests[i].test_id }) = 1

\* C3's case: run_tests returned after one task raised and another timed out.
C3_Witness ==
    /\ runner = "returned"
    /\ \E i \in Tasks : outcome[i].kind = "exception"
    /\ \E i \in Tasks : outcome[i].kind = "result" /\ outcome[i].met = "timeout"

\* The entries of the results file that carry task i's test_id.
Flushed(i) ==
    IF ~output_file.written THEN { }
    ELSE { output_file.data[k] : k \in { k \in 1..Len(output_file.data) :
                                           output_file.data[k].test_id = tests[i].test_id } }

\* C4: when the run is cancelled with tasks outstanding, every cancelled task
\* is a result with success = false and an error, and the results file holds
\* the result of every task that had completed.
C4_CancelFlushesResults ==
    runner = "raised" =>
        \A i \in Tasks :
            /\ outcome[i].kind = "cancelled" =>
                  \E r \in Flushed(i) : r.success = FALSE /\ r.error # NoError
            /\ outcome[i].kind = "result" => outcome[i].result \in Flushed(i)

StartsWith(error, prefix) == Len(error) >= 1 /\ error[1] = prefix

\* C5: every failure of a task is in its result by its class: a timeout is
\* "Request timeout", a transport error starts "Request error: ", any other
\* failure anywhere in the task starts "Unexpected error: ", all with
\* success = false; success = true exactly with a response and no error.
C5_FailureClasses ==
    runner = "returned" =>
        \A i \in Tasks :
            LET r == processed_results[i]
                met == IF outcome[i].kind = "result" THEN outcome[i].met ELSE "setup"
            IN  /\ met = "timeout" => ~r.success /\ r.error = TimeoutError
                /\ met = "request_error" =>
                      ~r.success /\ StartsWith(r.error, "Request error: ")
                /\ met \in { "other", "setup" } =>
                      ~r.success /\ StartsWith(r.error, "Unexpected error: ")
                /\ r.success <=>
                      /\ "response" \in DOMAIN r
                      /\ r.response # "None"
                      /\ r.error = NoError

(***************************************************************************)
(* Claims about the test generator, checked under SpecGen.                 *)
(***************************************************************************)

\* C6: with allow_destructive false, no generated TestCase has method DELETE,
\* whatever the endpoints' own methods and for all four classes of tests.
C6_DestructiveGate ==
    ~allow_destructive =>
        \A k \in 1..Len(all_tests) : all_tests[k].method # "DELETE"

\* C7: the tests generated for an endpoint are at most max_tests.
C7_TestCap ==
    \A e \in 1..Len(endpoint_tests) : Len(endpoint_tests[e]) <= max_tests

\* C7's case: an endpoint with tests of all four classes was cut to a cap that
\* is not 0, and the tests were saved.
C7_Witness ==
    /\ tests_file.written
    /\ max_tests > 0
    /\ \E e \in 1..Len(endpoint_tests) :
          /\ Len(endpoint_tests[e]) = max_tests
          /\ endpoints[e].method = "POST"
          /\ endpoints[e].id_pools # << >>
          /\ endpoint_tests[e][1].test_type = "IDOR"

(***************************************************************************)
(* Claims about the endpoint modeler, checked under SpecParse.             *)
(***************************************************************************)

\* C8: no two of the Endpoints parse_requests produces have the same method
\* and templated_path.
C8_EndpointsUnique ==
    \A a, b \in 1..Len(parsed_endpoints) :
        a # b =>
            << parsed_endpoints[a].method, parsed_endpoints[a].templated_path >>
                # << parsed_endpoints[b].method, parsed_endpoints[b].templated_path >>

(***************************************************************************)
(* Claims about the severity decision, checked under SpecSev.              *)
(***************************************************************************)

\* A path contains a token of the vocabulary, whatever the letter case of
\* either.
MentionsSensitive(field_path) ==
    \E k \in 1..Len(SENSITIVE_FIELDS) :
        Contains(Lower(field_path), Lower(SENSITIVE_FIELDS[k]))

\* The paths of the added, removed and changed items of a report.
ItemPaths(diff) ==
    UNION { diff[c] : c \in DOMAIN diff \cap { "dictionary_item_added",
                                               "dictionary_item_removed",
                                               "values_changed" } }

\* C9: a diff with a path that contains a sensitive-field token yields HIGH
\* whatever the status codes are.  Stated for the paths the analyzer's own
\* detection keeps, so that the rule's place in the order is all it tests.
C9_SensitiveBeforeStatus ==
    (/\ sev_phase = "returned"
     /\ Truthy(sev_args.diff)
     /\ DetectSensitiveFieldChanges(sev_args.diff) # { })
        => severity = "HIGH"

\* C10: every added, removed or changed path that contains a token of the
\* vocabulary in any letter case is among the sensitive changes detected.
C10_CaseInsensitiveTokens ==
    sensitive_changes.called =>
        \A field_path \in ItemPaths(sev_args.diff) :
            MentionsSensitive(field_path) => field_path \in sensitive_changes.fields

EarlierRuleMatches(turn) ==
    \/ /\ turn.baseline.response.status \in { 401, 403, 404 }
       /\ turn.test_result.response.status \in { 200, 201, 204 }
    \/ \E c \in DOMAIN turn.diff : \E field_path \in turn.diff[c] :
           MentionsSensitive(field_path)
    \/ /\ turn.test.test_type = "IDOR"
       /\ turn.baseline.response.status = 200
       /\ turn.test_result.response.status = 200
       /\ Truthy(turn.diff)
    \/ /\ turn.baseline.response.status \in { 400, 404 }
       /\ turn.test_result.response.status \in { 200, 201, 204 }

\* C12: when none of rules 1 to 4 matches and the test body's length differs
\* from the baseline body's by more than 30 percent of the latter, the
\* severity is MEDIUM.
C12_LengthDeltaMedium ==
    (/\ an_last.emitted
     /\ ~EarlierRuleMatches(an_last)
     /\ 100 * Abs(Len(an_last.test_result.response.body)
                    - Len(an_last.baseline.response.body))
           > 30 * Len(an_last.baseline.response.body))
        => an_last.severity = "MEDIUM"

(***************************************************************************)
(* Claims about two runs of the generator, checked under SpecGenTwice.     *)
(***************************************************************************)

\* C13: two runs of generate_tests on the same endpoints with the same
\* configuration write the same sequence of tests.
C13_RunsAgree ==
    (first_run.written /\ tests_file.written) => tests_file.data = first_run.data

(***************************************************************************)
(* Claims about the request the replay engine sends, checked under         *)
(* SpecRequest.                                                            *)
(***************************************************************************)

\* C14: every request sent has the User-Agent header; its value is
\* surfacerecon/1.0 unless the test's own headers set User-Agent, whatever the
\* caller's headers hold under that name.
C14_ResearcherHeader ==
    rq_phase = "sent" =>
        /\ "User-Agent" \in DOMAIN request_kwargs.headers
        /\ request_kwargs.headers["User-Agent"] =
               IF "User-Agent" \in DOMAIN rq_test.headers
               THEN rq_test.headers["User-Agent"]
               ELSE "surfacerecon/1.0"

C14_Witness ==
    /\ rq_phase = "sent"
    /\ "User-Agent" \in DOMAIN rq_headers
    /\ "User-Agent" \notin DOMAIN rq_test.headers
    /\ request_kwargs.headers["User-Agent"] = "surfacerecon/1.0"

(***************************************************************************)
(* More claims about the test generator, checked under SpecGen.            *)
(***************************************************************************)

\* The test types found in a list of tests.
TypesIn(ts) == { ts[k].test_type : k \in 1..Len(ts) }

\* C15: every AUTH_BYPASS test written has cookies false, and every test of
\* another class has cookies true.
C15_SessionFlag ==
    \A k \in 1..Len(all_tests) :
        all_tests[k].cookies = (all_tests[k].test_type # "AUTH_BYPASS")

C15_Witness ==
    /\ tests_file.written
    /\ TypesIn(tests_file.data)
           = { "IDOR", "AUTH_BYPASS", "METHOD_CONFUSION", "MASS_ASSIGNMENT" }
    /\ \E k \in 1..Len(tests_file.data) :
           tests_file.data[k].test_type = "AUTH_BYPASS" /\ ~tests_file.data[k].cookies
    /\ \E k \in 1..Len(tests_file.data) :
           tests_file.data[k].test_type = "IDOR" /\ tests_file.data[k].cookies

(***************************************************************************)
(* Claims about ID pools, checked under SpecPool.                          *)
(***************************************************************************)

\* The sets of the pool that hold a value, in the form add stores it.
BucketsHolding(value) ==
    { b \in { "integer", "uuid", "string" } :
        \/ /\ b = "integer"
           /\ \/ value.kind \in { "int", "bool" } /\ value.int \in id_pool.integer_ids
              \/ /\ value.kind = "str"
                 /\ IsDecimal(value.text)
                 /\ IntOf(value.text) \in id_pool.integer_ids
        \/ b = "uuid" /\ value.kind = "str" /\ value.text \in id_pool.uuid_ids
        \/ b = "string" /\ value.kind \in { "str", "other" }
                        /\ value.text \in id_pool.string_ids }

\* C16: each value given to IDPool.add lands in exactly one of the three sets:
\* no add fails, and every value added so far is held by one set and no other.
C16_OneBucket ==
    /\ pool_phase # "raised"
    /\ \A k \in 1..Len(pool_values) :
          (k < pool_i) => Cardinality(BucketsHolding(pool_values[k])) = 1

\* C17: with the endpoint /users/{id:int} of integer pool {1, 2} and the
\* endpoint /projects/{id:int} of integer pool {100}, generate_idor_tests for
\* the users endpoint emits a test whose URL is /users/100.
C17_CrossPoolIdor ==
    (/\ endpoints = << UsersByTwoIds, ProjectsById >>
     /\ gen_idx = 1
     /\ idor_i = IdorIterations(endpoints[1]))
        => \E k \in 1..Len(idor_tests) :
               idor_tests[k].url = << "", "users", Str(JsonInt(100)) >>

(***************************************************************************)
(* More claims about the endpoint modeler, checked under SpecParse.        *)
(***************************************************************************)

\* The paths of the captured requests that have a response.
CapturedPaths ==
    { NormalizeUrl(requests_data[k].url)[1] :
        k \in { k \in 1..Len(requests_data) : requests_data[k].has_response } }

\* C18: from GET /x/550e8400-e29b-41d4-a716-446655440000 and GET /x/7 the
\* only templated_path produced is /x/{id:int}; none is /x/{id:uuid}.
C18_IntBeatsUuid ==
    (/\ parse_phase = "returned"
     /\ \A k \in 1..Len(requests_data) : requests_data[k].method = "GET"
     /\ CapturedPaths = { << "/", "x", "/", "5", "5", "0", "e", "8", "4", "0", "0", "-", "e", "2", "9", "b", "-", "4", "1", "d", "4", "-", "a", "7", "1", "6", "-", "4", "4", "6", "6", "5", "5", "4", "4", "0", "0", "0", "0" >>,
                          << "/", "x", "/", "7" >> })
        => \A e \in 1..Len(parsed_endpoints) :
               parsed_endpoints[e].templated_path = << "/", "x", "/", "{", "i", "d", ":", "i", "n", "t", "}" >>

\* A URL, as the pieces between its slashes, that begins with a scheme and an
\* authority: scheme:, nothing, host, then the path.
HasSchemeAndAuthority(url) ==
    /\ Len(url) >= 3
    /\ url[1] # ""
    /\ url[2] = ""
    /\ url[3] # ""

\* C19: the URL of every IDOR test keeps the scheme and the authority of the
\* captured request.
C19_IdorUrlAbsolute ==
    \A k \in 1..Len(all_tests) :
        all_tests[k].test_type = "IDOR" => HasSchemeAndAuthority(all_tests[k].url)

(***************************************************************************)
(* More claims about the request sent, checked under SpecRequest.          *)
(***************************************************************************)

\* The caller's headers that the request carries as the caller gave them.
CallerHeadersSent ==
    { h \in DOMAIN rq_headers :
        /\ h \in DOMAIN request_kwargs.headers
        /\ request_kwargs.headers[h] = rq_headers[h] }

\* C20: the request for a test whose cookies flag is false carries no cookie
\* and no header of the caller's; the request for a test whose flag is true
\* carries every cookie name supplied, with a value supplied for it.
C20_SessionMaterial ==
    rq_phase = "sent" =>
        IF ~rq_test.cookies
        THEN /\ "cookies" \notin DOMAIN request_kwargs
             /\ CallerHeadersSent = { }
        ELSE \A k \in 1..Len(rq_cookies) :
                /\ "cookies" \in DOMAIN request_kwargs
                /\ rq_cookies[k].name \in DOMAIN request_kwargs.cookies
                /\ request_kwargs.cookies[rq_cookies[k].name]
                       \in { rq_cookies[j].value :
                               j \in { j \in 1..Len(rq_cookies) :
                                         rq_cookies[j].name = rq_cookies[k].name } }


(***************************************************************************)
(* The order of the generated tests, checked under SpecGen.                *)
(***************************************************************************)

\* The place of a test class in the order IDOR, AUTH_BYPASS, METHOD_CONFUSION,
\* MASS_ASSIGNMENT.
ClassRank(test_type) ==
    CASE test_type = "IDOR" -> 1
      [] test_type = "AUTH_BYPASS" -> 2
      [] test_type = "METHOD_CONFUSION" -> 3
      [] test_type = "MASS_ASSIGNMENT" -> 4

\* The first n elements of a list (all of them when it has fewer).
FirstN(xs, n) == SubSeq(xs, 1, Min(n, Len(xs)))

\* The four generator outputs of the endpoint in turn, joined in class order.
ClassOrderOutputs ==
    LET endpoint == endpoints[gen_idx] IN
    FirstN(idor_tests, IDOR_TEST_COUNT)
    \o AuthBypassTests(endpoint)
    \o MethodConfusionTests(endpoint, allow_destructive)
    \o MassAssignmentTests(endpoint)

\* In every state the tests made so far are the blocks of the endpoints done,
\* in endpoint order, no block has a test of an earlier class after a test of
\* a later class, each block's tests name its endpoint, and a written file
\* holds exactly these blocks.
BlocksInOrder ==
    /\ all_tests = Flatten(endpoint_tests)
    /\ Len(endpoint_tests) = gen_idx - 1
    /\ \A b \in 1..Len(endpoint_tests) :
          /\ \A k \in 1..Len(endpoint_tests[b]) :
                endpoint_tests[b][k].endpoint = endpoints[b].templated_path
          /\ \A j, k \in 1..Len(endpoint_tests[b]) :
                j < k => ClassRank(endpoint_tests[b][j].test_type)
                             <= ClassRank(endpoint_tests[b][k].test_type)
    /\ tests_file.written =>
          /\ tests_file.data = Flatten(endpoint_tests)
          /\ Len(endpoint_tests) = Len(endpoints)

\* The step that ends an endpoint's turn adds, as that endpoint's block, the
\* first max_tests elements of its four outputs joined in class order.
BlockIsPrefix ==
    gen_idx' = gen_idx + 1 =>
        /\ endpoint_tests' = Append(endpoint_tests, FirstN(ClassOrderOutputs, max_tests))
        /\ all_tests' = all_tests \o FirstN(ClassOrderOutputs, max_tests)

\* C21: in the output of generate_tests the tests of each endpoint are one
\* contiguous block, the blocks are in endpoint input order, and each block is
\* the first max_tests elements of IDOR ++ AUTH_BYPASS ++ METHOD_CONFUSION ++
\* MASS_ASSIGNMENT of that endpoint; within a block no test of an earlier
\* class follows one of a later class.
C21_BlocksInClassOrder == [](BlocksInOrder) /\ [][BlockIsPrefix]_vars

\* A written file of two blocks cut to two tests each, the first of which is
\* one IDOR test followed by one AUTH_BYPASS test.
C21_Witness ==
    /\ tests_file.written
    /\ max_tests = 2
    /\ Len(endpoint_tests) = 2
    /\ Len(endpoint_tests[1]) = 2
    /\ endpoint_tests[1][1].test_type = "IDOR"
    /\ endpoint_tests[1][2].test_type = "AUTH_BYPASS"
    /\ tests_file.data = endpoint_tests[1] \o endpoint_tests[2]


(***************************************************************************)
(* The IDOR variants, checked under SpecGen.                               *)
(***************************************************************************)

\* The IDOR tests made so far: those of the loop in progress and those of the
\* endpoints done.
IdorTestsMade ==
    { idor_tests[k] : k \in 1..Len(idor_tests) }
    \cup { all_tests[k] : k \in { k \in 1..Len(all_tests) : all_tests[k].test_type = "IDOR" } }

\* What the description of an IDOR test records.
SourcePoolOf(test) == test.description[2]
OriginalIdOf(test) == test.description[3]
TargetPoolOf(test) == test.description[4]
TargetIdOf(test) == test.description[5]

\* The endpoint of the model with a templated path.
EndpointsAt(path) == { k \in 1..Len(endpoints) : endpoints[k].templated_path = path }

\* The target of a test is an id of a pool, named as the test says, of some
\* endpoint, and the original is an id of the named pool of the endpoint under
\* test.
FromNamedPools(test) ==
    /\ InList(TargetIdOf(test), AllPoolIds(endpoints, TargetPoolOf(test)))
    /\ \E e \in EndpointsAt(test.endpoint) :
          \E p \in 1..Len(endpoints[e].id_pools) :
             /\ endpoints[e].id_pools[p].name = SourcePoolOf(test)
             /\ InList(OriginalIdOf(test), PoolIds(endpoints[e].id_pools[p]))

\* A URL in which one of the three placeholders is left.
HasPlaceholder(url) == \E k \in 1..Len(url) : url[k] \in Placeholders

\* What the claim says of targets, counts and endpoints without a pool.
TargetsAndCounts ==
    /\ \A test \in IdorTestsMade :
          /\ TargetIdOf(test) # OriginalIdOf(test)
          /\ TargetPoolOf(test) # SourcePoolOf(test)
          /\ FromNamedPools(test)
    /\ \A b \in 1..Len(endpoint_tests) :
          LET idor == { k \in 1..Len(endpoint_tests[b]) :
                          endpoint_tests[b][k].test_type = "IDOR" }
          IN  /\ Cardinality(idor) <= IDOR_TEST_COUNT
              /\ endpoints[b].id_pools = << >> => idor = { }
    /\ (gen_idx \in 1..Len(endpoints) /\ endpoints[gen_idx].id_pools = << >>)
          => idor_tests = << >>

C23_BodyOnlyForWriteMethods ==
    \A b \in 1..Len(endpoint_tests) :
        \A k \in 1..Len(endpoint_tests[b]) :
            LET test == endpoint_tests[b][k] IN
            test.test_type = "METHOD_CONFUSION" =>
                (test.body.present <=>
                    (/\ endpoints[b].sample_bodies # << >>
                     /\ test.method \in { "POST", "PUT", "PATCH" }))


(***************************************************************************)
(* The values mass assignment injects, checked under SpecMass.             *)
(***************************************************************************)

\* A name that begins with a prefix.
BeginsWith(name, prefix) ==
    Len(name) >= Len(prefix) /\ SubSeq(name, 1, Len(prefix)) = prefix

\* The value the heuristics of the specification give a name, in their order.
HeuristicValue(name) ==
    IF Contains(Lower(name), << "a", "d", "m", "i", "n" >>)
       \/ BeginsWith(Lower(name), << "i", "s" >>)
    THEN "True"
    ELSE IF Contains(Lower(name), << "r", "o", "l", "e" >>) THEN "admin"
    ELSE IF Contains(Lower(name), << "p", "e", "r", "m", "i", "s", "s", "i", "o", "n" >>)
            \/ Contains(Lower(name), << "a", "c", "c", "e", "s", "s" >>)
    THEN "full"
    ELSE "True"

\* C24: every test generate_mass_assignment_tests returns, for any count up to
\* the size of the vocabulary, injects its name with the value the heuristics
\* give it in order: true for a name that contains admin or begins with is,
\* else "admin" for one that contains role, else "full" for one that contains
\* permission or access, else true.
C24_InjectedValues ==
    ma_phase = "returned" =>
        \A k \in 1..Len(ma_tests) :
            /\ SUSPICIOUS_FIELDS[k] \in DOMAIN ma_tests[k].body.fields
            /\ ma_tests[k].body.fields[SUSPICIOUS_FIELDS[k]]
                   = HeuristicValue(SUSPICIOUS_FIELDS[k])


(***************************************************************************)
(* More claims about the analyzer's turns, checked under SpecAnalyze.      *)
(***************************************************************************)

\* The body of the test response is longer or shorter than the baseline's by
\* more than 30 percent of the baseline's length.
LengthDeltaOver30(turn) ==
    100 * Abs(Len(turn.test_result.response.body) - Len(turn.baseline.response.body))
        > 30 * Len(turn.baseline.response.body)

\* Both statuses are 200 and the diff, which exists, has no path with a
\* sensitive-field token.
SameSurfaceChange(turn) ==
    /\ turn.baseline.response.status = 200
    /\ turn.test_result.response.status = 200
    /\ Truthy(turn.diff)
    /\ \A c \in DOMAIN turn.diff : \A field_path \in turn.diff[c] :
           ~MentionsSensitive(field_path)

\* One of the rules 1 to 6 of the decision procedure matches.
SomeRuleMatches(turn) ==
    \/ EarlierRuleMatches(turn)
    \/ LengthDeltaOver30(turn)
    \/ /\ turn.baseline.response.status = 200
       /\ turn.test_result.response.status = 200
       /\ Truthy(turn.diff)

\* C25: under two 200s and a diff without a sensitive-field path an IDOR test
\* is HIGH, also when the body-length delta is over 30 percent, and a test of
\* any other type is MEDIUM; when none of the rules 1 to 6 matches the
\* severity is LOW; the severity is always HIGH, MEDIUM or LOW.
C25_SameSurfaceSeverity ==
    an_last.emitted =>
        /\ an_last.severity \in { "HIGH", "MEDIUM", "LOW" }
        /\ SameSurfaceChange(an_last) =>
               an_last.severity = IF an_last.test.test_type = "IDOR"
                                  THEN "HIGH" ELSE "MEDIUM"
        /\ ~SomeRuleMatches(an_last) => an_last.severity = "LOW"

\* Two findings under two 200s without a sensitive path: MEDIUM for a test
\* that is not an IDOR test, then HIGH for an IDOR test whose body is longer
\* than the baseline's by more than 30 percent.
C25_Witness ==
    /\ Len(findings) = 2
    /\ findings[1].test_type # "IDOR"
    /\ findings[1].baseline_status = 200
    /\ findings[1].test_status = 200
    /\ findings[1].severity = "MEDIUM"
    /\ an_last.emitted
    /\ an_last.test.test_type = "IDOR"
    /\ SameSurfaceChange(an_last)
    /\ LengthDeltaOver30(an_last)
    /\ an_last.severity = "HIGH"


\* The places of the tests with the test_id of a result.
TestPlaces(result) == { k \in 1..Len(an_tests) : an_tests[k].test_id = result.test_id }

\* The method of the test a result is looked up as (tests_by_id keeps the last
\* test of an id).
MethodOf(result) ==
    an_tests[CHOOSE k \in TestPlaces(result) : \A h \in TestPlaces(result) : h <= k].method

\* The places of the captured requests indexed under (url, method), and of
\* those with the method.
IndexedAt(url, method) ==
    { k \in 1..Len(baseline_requests) :
        baseline_requests[k].url = url /\ baseline_requests[k].method = method }
WithMethod(method) ==
    { k \in 1..Len(baseline_requests) : baseline_requests[k].method = method }

\* The place of the baseline the lookup rule gives a (url, method): the entry
\* of the index (the last captured request of that key), on a miss the first
\* captured request with the method; 0 when there is neither.
BaselinePlace(url, method) ==
    IF IndexedAt(url, method) # { }
    THEN CHOOSE k \in IndexedAt(url, method) : \A h \in IndexedAt(url, method) : h <= k
    ELSE IF WithMethod(method) # { }
    THEN CHOOSE k \in WithMethod(method) : \A h \in WithMethod(method) : k <= h
    ELSE 0

\* A result for which a finding is due.
FindingDue(result) ==
    /\ result.success
    /\ TestPlaces(result) # { }
    /\ BaselinePlace(result.url, MethodOf(result)) # 0
    /\ baseline_requests[BaselinePlace(result.url, MethodOf(result))].has_response

\* The results, among the first n, for which a finding is due, in order.
RECURSIVE DueAmong(_)
DueAmong(n) ==
    IF n = 0 THEN << >>
    ELSE DueAmong(n - 1)
             \o (IF FindingDue(test_results[n]) THEN << test_results[n] >> ELSE << >>)

\* C26: analyze_results emits a finding for a result if and only if the
\* result is successful, its test_id is one of the tests and a baseline with a
\* response is found, the baseline being the captured request indexed under
\* (result URL, test method) or, on a miss, the first captured request with
\* the test's method; a failed result or a miss gives no finding and does not
\* stop the analysis of the results after it.
C26_FindingIffBaseline ==
    an_phase \in { "loop", "returned" } =>
        LET done == IF an_phase = "returned" THEN Len(test_results) ELSE an_i - 1
            due == DueAmong(done)
        IN  /\ an_phase = "returned" => an_i = Len(test_results) + 1
            /\ Len(findings) = Len(due)
            /\ \A k \in 1..Len(findings) :
                  /\ findings[k].test_id = due[k].test_id
                  /\ findings[k].test_status = due[k].response.status
                  /\ findings[k].baseline_status =
                         baseline_requests[BaselinePlace(due[k].url, MethodOf(due[k]))]
                             .response.status
            /\ (done > 0 /\ an_last.emitted) <=> (done > 0 /\ FindingDue(test_results[done]))

\* The analysis has returned: the first result had failed, the second was
\* for a URL that was not captured and got its finding against the first
\* captured request of the test's method.
C26_Witness ==
    /\ an_phase = "returned"
    /\ Len(test_results) = 2
    /\ ~test_results[1].success
    /\ Len(findings) = 1
    /\ findings_file.written
    /\ IndexedAt(test_results[2].url, MethodOf(test_results[2])) = { }
    /\ findings[1].test_id = test_results[2].test_id


\* Whether a list of test_ids can be read, in order, out of the first n
\* results that succeeded.
RECURSIVE InResultOrder(_, _)
InResultOrder(ids, n) ==
    IF ids = << >> THEN TRUE
    ELSE IF n = 0 THEN FALSE
    ELSE IF /\ test_results[n].success
            /\ test_results[n].test_id = ids[Len(ids)]
            /\ InResultOrder(SubSeq(ids, 1, Len(ids) - 1), n - 1)
    THEN TRUE
    ELSE InResultOrder(ids, n - 1)

RespondedUnder(key) ==
    Flatten([ k \in 1..Len(requests_data) |->
                IF requests_data[k].has_response /\ GroupKey(requests_data[k]) = key
                THEN << requests_data[k] >> ELSE << >> ])

\* The objects that the request bodies of a list of requests parse to.
OwnObjects(requests) ==
    Flatten([ r \in 1..Len(requests) |->
                IF JsonLoads(requests[r].post_data).ok
                THEN << JsonLoads(requests[r].post_data).value >> ELSE << >> ])

\* C28: parse_requests does not abort, whatever the request bodies are; the
\* sample_bodies and parameters.body of an endpoint come only from the request
\* bodies, of its requests, that parse as a JSON object; a request with an
\* empty or unparseable request body still gives its endpoint; a request
\* without a response gives nothing.
C28_BodiesNeverAbort ==
    /\ parse_phase # "raised"
    /\ parse_phase = "returned" =>
          /\ { endpoint_groups[g].key : g \in 1..Len(endpoint_groups) }
                 = { GroupKey(requests_data[k]) :
                       k \in { k \in 1..Len(requests_data) : requests_data[k].has_response } }
          /\ Len(parsed_endpoints) = Len(endpoint_groups)
          /\ \A e \in 1..Len(parsed_endpoints) :
                LET own == OwnObjects(RespondedUnder(endpoint_groups[e].key)) IN
                /\ parsed_endpoints[e].sample_bodies = own
                /\ DOMAIN parsed_endpoints[e].body_params
                       = UNION { DOMAIN own[b] : b \in 1..Len(own) }


(***************************************************************************)
(* The test ids of a run of the generator, checked under SpecGen.          *)
(***************************************************************************)

\* No two endpoints of the input have the same method and templated path.
EndpointsDistinct ==
    \A i, j \in 1..Len(endpoints) :
        (/\ endpoints[i].method = endpoints[j].method
         /\ endpoints[i].templated_path = endpoints[j].templated_path) => i = j

\* C29: no two tests that generate_tests produces, for a set of distinct
\* endpoints, have the same test_id -- also when two endpoints have the same
\* templated path and different methods -- so that a result's test_id names
\* one test.
C29_TestIdsUnique ==
    EndpointsDistinct =>
        \A j, k \in 1..Len(all_tests) :
            all_tests[j].test_id = all_tests[k].test_id => j = k


\* ---------------------------------------------------------------------------
\* C30. Every HTTP attempt ends and scheduling is fair (SpecFair). Then every
\* replay task obtains a semaphore slot and a rate token, completes and gives
\* its slot back on every outcome path: a run that is not cancelled ends with
\* run_tests returned, every test resolved to an entry of the results and all
\* C permits free, and no task waits forever.

\* run_tests has returned: every task ended, every test has its entry in the
\* results written out, and every permit of the semaphore is free.
AllResolved ==
    /\ runner = "returned"
    /\ \A i \in Tasks : pc[i] = "done"
    /\ Len(processed_results) = NumTests
    /\ output_file = Written(processed_results)
    /\ permits = concurrency

\* The run was cancelled from outside while gather was pending.
Cancelled == runner = "raised"

C30_EveryTaskCompletes == <>(AllResolved \/ Cancelled)

\* The same statement for the runs whose semaphore has a permit at all.
C30_CompletesWithPermits == (concurrency > 0) => <>(AllResolved \/ Cancelled)

\* A run with a permit that came to its end through every stage: tasks slept
\* for their token, waited for the semaphore, and run_tests returned.
C30_CompletesWitness ==
    /\ AllResolved
    /\ concurrency = 1
    /\ Len(tokens) = NumTests
    /\ \E i \in Tasks : outcome[i].kind = "result" /\ outcome[i].met = "timeout"

====
